---- MODULE Spec2Model ----
(***************************************************************************)
(* GRIB2 reader (xjr1300/grib2): the run-length value decoder              *)
(* Grib2ValueIter (src/src/reader/grib2_value_iter.rs) and the section     *)
(* parser / product readers (src/grib2/src/reader).                        *)
(*                                                                         *)
(* Three specifications share the variables:                               *)
(*   Spec        the decoder: Grib2ValueIter::new followed by next() calls *)
(*   SpecExpand  the pure function expand_run_length on bounded inputs     *)
(*   SpecParse   reader construction: the sections parsed one after the    *)
(*               other from the bytes of a file                            *)
(***************************************************************************)
EXTENDS Integers, Sequences, FiniteSets, TLC

VARIABLES
    \* --- Grib2ValueIter (grib2_value_iter.rs:8-43) ---
    file,             \* reader: the bytes of the file from the payload offset to EOF
    pos,              \* reader: the cursor, relative to the payload offset
    number_of_points,
    total_bytes,
    lat_max,          \* argument of new(), kept for the claims
    lon_min,
    lon_max,
    lat_inc,
    lon_inc,
    nbit,             \* argument of new(), kept for the claims
    maxv,
    lngu,
    level_values,
    read_bytes,
    current_lat,
    current_lon,
    current_level,
    current_value,
    returning_times,
    number_of_reads,
    \* --- the caller of the iterator ---
    pc,               \* "start" | "ready" | "panicked" | "idle"
    build,            \* "debug" (overflow checks on) | "release" (wrapping)
    items,            \* the items next() has returned so far, in order
    \* --- expand_run_length as a unit (SpecExpand) ---
    xin,
    xout,
    \* --- reader construction (SpecParse) ---
    pfile,            \* the bytes of the whole file
    ppos,             \* the cursor of the parsing reader
    ppc,              \* the step the constructor is at (0: not running)
    product,          \* which product reader is being constructed
    parsed,           \* the sections parsed so far, in order, with their extent
    s3points,         \* Section3.number_of_data_points
    s5values,         \* Section5.number_of_values of every Section 5 parsed
    s7runs,           \* what every Section 7 parsed has recorded of its payload
    presult,          \* the result of the constructor
    \* --- several value streams at once (SpecStreams) ---
    held,             \* the Grib2ValueIter the caller holds and is not calling
    solo,             \* what each stream has returned when consumed alone
    running,          \* which stream the fields above are the state of
    \* --- read_i32 and read_datetime as units (SpecReadI32, SpecReadDatetime) ---
    rin,              \* the reader called and the bytes at its cursor
    rout,             \* what the call has returned
    \* --- opening the path (SpecParse) ---
    path,             \* whether File::open succeeds when new and when values call it
    handle,           \* "closed" | "open": the file of the constructor's reader
    vresult           \* the result of values(), called on the reader constructed

dvars == <<file, pos, number_of_points, total_bytes, lat_max, lon_min, lon_max,
           lat_inc, lon_inc, nbit, maxv, lngu, level_values, read_bytes,
           current_lat, current_lon, current_level, current_value,
           returning_times, number_of_reads, pc, build, items>>
xvars == <<xin, xout>>
pvars == <<pfile, ppos, ppc, product, parsed, s3points, s5values, s7runs,
          presult>>
svars == <<held, solo, running>>
rvars == <<rin, rout>>
ovars == <<path, handle, vresult>>
vars == <<dvars, xvars, pvars, svars, rvars, ovars>>

----------------------------------------------------------------------------
(* Bounds of the model.                                                    *)
MaxPayload == 3      \* longest enumerated compressed payload, in bytes
MaxPoints == 3       \* largest enumerated Section3.number_of_data_points
MaxCalls == 5        \* next() calls made on an enumerated payload
ExampleCalls == 23   \* next() calls made on the 13-symbol example payload

----------------------------------------------------------------------------
(* Machine integers.  TLC's integers are 32-bit signed, so a u32 is kept   *)
(* as two 16-bit limbs and a u16 as a number below 2^16.                   *)
W16 == 65536

U32(n) == [hi |-> n \div W16, lo |-> n % W16]

\* a + b in u32: the wrapped sum and whether it overflowed
AddU32(a, b) ==
    LET lo == a.lo + b.lo
        hi == a.hi + b.hi + (lo \div W16)
    IN  [v |-> [hi |-> hi % W16, lo |-> lo % W16], overflow |-> hi >= W16]

\* a - b in u32: the wrapped difference and whether it underflowed
SubU32(a, b) ==
    LET lo == a.lo - b.lo
        borrow == IF lo < 0 THEN 1 ELSE 0
        hi == a.hi - b.hi - borrow
    IN  [v |-> [hi |-> (hi + W16) % W16, lo |-> (lo + W16) % W16],
         overflow |-> hi < 0]

\* a < b in u32
LtU32(a, b) == a.hi < b.hi \/ (a.hi = b.hi /\ a.lo < b.lo)

RECURSIVE Pow(_, _)
Pow(b, e) == IF e = 0 THEN 1 ELSE b * Pow(b, e - 1)

\* Option<u16>
NoValue == [some |-> FALSE, v |-> 0]
Some(x) == [some |-> TRUE, v |-> x]

\* the items of the stream: Option<ReaderResult<Grib2Value>>.  lat_e6 and
\* lon_e6 are the numerators of lat and lon (the u32 divided by 1_000_000.0
\* as f64, which is one-to-one on u32).
OkItem(lat, lon, level, value) ==
    [kind |-> "Ok", lat_e6 |-> lat, lon_e6 |-> lon, level |-> level, value |-> value]
ErrItem(kind) ==
    [kind |-> kind, lat_e6 |-> U32(0), lon_e6 |-> U32(0), level |-> 0, value |-> NoValue]
NoneItem == ErrItem("None")

----------------------------------------------------------------------------
(* u32 and u16 arithmetic of the decoder.                                  *)

\* a checked result r with the overflow flag o of its operands added
OrOverflow(r, o) == [v |-> r.v, overflow |-> r.overflow \/ o]

\* x * m in u32 for m < 2^16 (the u32 multiplication of grib2_value_iter.rs:278).
\* With m = mh * 2^8 + ml the product is
\*   x.lo*ml + (x.lo*mh) * 2^8 + (x.hi*ml) * 2^16 + (x.hi*mh) * 2^24 ;
\* MulU32Carry receives the part below 2^17 (low), the part of weight 2^16
\* (high) and the part of weight 2^32 (top); every number stays below 2^31.
MulU32Carry(low, high, top) ==
    [v |-> [hi |-> (high + (low \div W16)) % W16, lo |-> low % W16],
     overflow |-> (high + (low \div W16)) >= W16 \/ top > 0]

MulU32Parts(a, b, c, d) ==
    MulU32Carry((a % W16) + (b % 256) * 256,
                (a \div W16) + (b \div 256) + c + (d % 256) * 256,
                d \div 256)

MulU32(x, m) ==
    MulU32Parts(x.lo * (m % 256), x.lo * (m \div 256),
                x.hi * (m % 256), x.hi * (m \div 256))

\* q * b, q a checked power
PowU32Mul(q, b) == OrOverflow(MulU32(q.v, b), q.overflow)

\* u32::pow(b, e) for b < 2^16 (grib2_value_iter.rs:278)
RECURSIVE PowU32(_, _)
PowU32(b, e) ==
    IF e = 0 THEN [v |-> U32(1), overflow |-> FALSE]
    ELSE PowU32Mul(PowU32(b, e - 1), b)

\* 2u16.pow(nbit) - 1 - maxv in u16 (grib2_value_iter.rs:80): the wrapped
\* value and whether any of the three operations overflowed
lngu_of(nb, mv) ==
    LET p == IF nb >= 16 THEN 0 ELSE Pow(2, nb)
        d == p - 1 - mv
    IN  [v |-> ((d % W16) + W16) % W16, overflow |-> nb >= 16 \/ d < 0]

\* x * y in u32, from a = x * y.lo and b = x * y.hi
MulU32Sum(a, b) ==
    OrOverflow(AddU32(a.v, [hi |-> b.v.lo, lo |-> 0]),
               a.overflow \/ b.overflow \/ b.v.hi # 0)

MulU32Full(x, y) == MulU32Sum(MulU32(x, y.lo), MulU32(x, y.hi))

\* pw * d, both checked
digit_mul(pw, d) == OrOverflow(MulU32Full(pw.v, d.v), pw.overflow \/ d.overflow)

\* one term of the digits' sum: lngu.pow(i) * (v - (maxv + 1))
\* (grib2_value_iter.rs:278)
digit_term(v, i, mv, lg) ==
    digit_mul(PowU32(lg, i), SubU32(U32(v), U32(mv + 1)))

\* term + rest, both checked
digit_add(term, rest) ==
    OrOverflow(AddU32(term.v, rest.v), term.overflow \/ rest.overflow)

\* the digits' sum  sum_i lngu.pow(i) * (values[2 + i] - (maxv + 1))  in u32
\* (grib2_value_iter.rs:275-279), over the digits from index k on (i = k - 2)
RECURSIVE digit_sum(_, _, _, _)
digit_sum(values, k, mv, lg) ==
    IF k > Len(values) THEN [v |-> U32(0), overflow |-> FALSE]
    ELSE digit_add(digit_term(values[k], k - 2, mv, lg),
                   digit_sum(values, k + 1, mv, lg))

\* the count  sum + 1  (grib2_value_iter.rs:281)
times_of(s) == OrOverflow(AddU32(s.v, U32(1)), s.overflow)

\* the result of expand_run_length for the checked count t
expand_result(level, t, bld) ==
    IF bld = "debug" /\ t.overflow
    THEN [panic |-> TRUE, level |-> 0, times |-> U32(0)]
    ELSE [panic |-> FALSE, level |-> level, times |-> t.v]

\* expand_run_length (grib2_value_iter.rs:263-282).  panic: the assert on the
\* first symbol fails, or (overflow checks on) an operation overflows.
expand_run_length(values, mv, lg, bld) ==
    IF ~(values[1] <= mv)
    THEN [panic |-> TRUE, level |-> 0, times |-> U32(0)]
    ELSE IF Len(values) = 1
    THEN [panic |-> FALSE, level |-> values[1], times |-> U32(1)]
    ELSE expand_result(values[1], times_of(digit_sum(values, 2, mv, lg)), bld)

\* retrieve_run_length (grib2_value_iter.rs:111-124) from cursor p of the
\* bytes f: read_u8 fails at the end of the file; a symbol <= maxv after the
\* first one is read and then un-read by seek_relative(-1).  The cursor and
\* read_bytes move together (read_u8: +1 each, seek_relative(-1): -1 each).
\* a decoder that goes back to the start of the payload when a read fails;
\* C30 must tell it from the decoder
RECURSIVE retrieve_run_length_rewinding(_, _, _, _)
retrieve_run_length_rewinding(f, p, run_length, mv) ==
    IF p >= Len(f)
    THEN [ok |-> FALSE, values |-> run_length, pos |-> 0]
    ELSE LET value == f[p + 1]
         IN  IF value <= mv /\ run_length # <<>>
             THEN [ok |-> TRUE, values |-> run_length, pos |-> p]
             ELSE retrieve_run_length_rewinding(f, p + 1,
                                                Append(run_length, value), mv)

RECURSIVE retrieve_run_length(_, _, _, _)
retrieve_run_length(f, p, run_length, mv) ==
    IF p >= Len(f)
    THEN [ok |-> FALSE, values |-> run_length, pos |-> p]
    ELSE LET value == f[p + 1]
         IN  IF value <= mv /\ run_length # <<>>
             THEN [ok |-> TRUE, values |-> run_length, pos |-> p]
             ELSE retrieve_run_length(f, p + 1, Append(run_length, value), mv)

----------------------------------------------------------------------------
(* The decoder: Grib2ValueIter.                                            *)

\* Grib2ValueIter::new (grib2_value_iter.rs:58-90).  With overflow checks on,
\* an overflow of the lngu computation panics; without them it wraps.
Grib2ValueIter_new ==
    /\ pc = "start"
    /\ LET l == lngu_of(nbit, maxv)
       IN  IF build = "debug" /\ l.overflow
           THEN /\ pc' = "panicked"
                /\ UNCHANGED <<lngu, read_bytes, current_lat, current_lon,
                               current_level, current_value, returning_times,
                               number_of_reads>>
           ELSE /\ pc' = "ready"
                /\ lngu' = l.v
                /\ read_bytes' = 0
                /\ current_lat' = lat_max
                /\ current_lon' = lon_min
                /\ current_level' = 0
                /\ current_value' = NoValue
                /\ returning_times' = U32(0)
                /\ number_of_reads' = 0
    /\ UNCHANGED <<file, pos, number_of_points, total_bytes, lat_max, lon_min,
                   lon_max, lat_inc, lon_inc, nbit, maxv, level_values, build,
                   items>>
    /\ UNCHANGED <<xvars, pvars, svars, rvars, ovars>>

\* a decoder that ends the stream whenever the payload is used up; C3 must
\* tell it from the decoder
end_item_silent(reads, points) == NoneItem

\* the item at the end of the payload (grib2_value_iter.rs:133-145)
end_item(reads, points) ==
    IF reads = points THEN NoneItem ELSE ErrItem("Unexpected")

\* a decoder that gives level 1 no physical value either; C7 must tell it
\* from the decoder
value_of_above_one(level, table) ==
    IF 1 < level THEN Some(table[level]) ELSE NoValue

\* the physical value of a level (grib2_value_iter.rs:159-163); the caller
\* has checked the index
value_of(level, table) ==
    IF 0 < level THEN Some(table[level]) ELSE NoValue

\* the tail of next() (grib2_value_iter.rs:167-185) for the current level lv,
\* value val and repeat count rt: the item, the fields after the grid move,
\* and whether an arithmetic step overflowed
move_grid(lv, val, rt) ==
    LET times == SubU32(rt, U32(1))
        lon == AddU32(current_lon, lon_inc)
        wrap == LtU32(lon_max, lon.v)
        lat == IF wrap THEN SubU32(current_lat, lat_inc)
               ELSE [v |-> current_lat, overflow |-> FALSE]
    IN  [item |-> OkItem(current_lat, current_lon, lv, val),
         returning_times |-> times.v,
         current_lon |-> IF wrap THEN lon_min ELSE lon.v,
         current_lat |-> lat.v,
         overflow |-> times.overflow \/ lon.overflow \/ lat.overflow]

\* the 13-symbol example of the doc comment (grib2_value_iter.rs:236-240)
ExamplePayload == <<3, 9, 12, 6, 4, 15, 2, 1, 0, 13, 12, 2, 3>>

\* the compressed payload: the first total_bytes bytes at the cursor's origin
Payload == SubSeq(file, 1, total_bytes)

\* the caller stops calling next() after the bound
CallBound == IF Payload = ExamplePayload THEN ExampleCalls ELSE MaxCalls

\* Iterator::next (grib2_value_iter.rs:130-186)
Grib2ValueIter_next ==
    /\ pc = "ready"
    /\ Len(items) < CallBound
    /\ IF returning_times = U32(0) /\ total_bytes <= read_bytes
       THEN \* lines 132-146: the end of the payload
            /\ items' = Append(items, end_item(number_of_reads, number_of_points))
            /\ UNCHANGED <<pos, read_bytes, current_lat, current_lon,
                           current_level, current_value, returning_times,
                           number_of_reads, pc>>
       ELSE LET fresh == returning_times = U32(0)
                rl == IF fresh THEN retrieve_run_length(file, pos, <<>>, maxv)
                      ELSE [ok |-> TRUE, values |-> <<>>, pos |-> pos]
                ex == IF fresh /\ rl.ok
                      THEN expand_run_length(rl.values, maxv, lngu, build)
                      ELSE [panic |-> FALSE, level |-> current_level,
                            times |-> returning_times]
                \* line 160: level_values[level as usize - 1]
                bad_index == fresh /\ rl.ok /\ ~ex.panic
                             /\ 0 < ex.level /\ ex.level > Len(level_values)
                val == IF ~fresh THEN current_value
                       ELSE IF bad_index THEN NoValue
                       ELSE value_of(ex.level, level_values)
                g == move_grid(ex.level, val, ex.times)
            IN  IF ~rl.ok
                THEN \* lines 152-154: the read error is the item
                     /\ items' = Append(items, ErrItem("ReadError"))
                     /\ pos' = rl.pos
                     /\ read_bytes' = read_bytes + (rl.pos - pos)
                     /\ UNCHANGED <<current_lat, current_lon, current_level,
                                    current_value, returning_times,
                                    number_of_reads, pc>>
                ELSE IF ex.panic \/ bad_index \/ (build = "debug" /\ g.overflow)
                THEN /\ pc' = "panicked"
                     /\ UNCHANGED <<items, pos, read_bytes, current_lat,
                                    current_lon, current_level, current_value,
                                    returning_times, number_of_reads>>
                ELSE /\ items' = Append(items, g.item)
                     /\ pos' = rl.pos
                     /\ read_bytes' = read_bytes + (rl.pos - pos)
                     /\ current_level' = ex.level
                     /\ current_value' = val
                     /\ returning_times' = g.returning_times
                     /\ current_lon' = g.current_lon
                     /\ current_lat' = g.current_lat
                     /\ number_of_reads' = number_of_reads + 1
                     /\ UNCHANGED pc
    /\ UNCHANGED <<file, number_of_points, total_bytes, lat_max, lon_min,
                   lon_max, lat_inc, lon_inc, nbit, maxv, lngu, level_values,
                   build>>
    /\ UNCHANGED <<xvars, pvars, svars, rvars, ovars>>

----------------------------------------------------------------------------
(* The inputs of the decoder.                                              *)

SeqsUpTo(S, n) == UNION {[1..k -> S] : k \in 0..n}

\* what follows the payload of a Section 7 in a file: Section 8 ("7777"), or
\* the Section 4 of the next tank / forecast hour (4-byte length, number 4)
SectionEightTail == <<55, 55, 55, 55>>
NextSectionTail == <<0, 0, 0, 34, 4>>
Tails == {SectionEightTail, NextSectionTail}

Builds == {"debug", "release"}

Geometry(la1, lo1, lo2, dj, di) ==
    [lat_max |-> U32(la1), lon_min |-> U32(lo1), lon_max |-> U32(lo2),
     lat_inc |-> U32(dj), lon_inc |-> U32(di)]

\* TallGrid: two points per row; LowGrid: one point per row, and the second
\* row is at latitude 0
TallGrid == Geometry(30, 100, 110, 10, 10)
LowGrid == Geometry(10, 100, 100, 10, 10)
ExampleGrid == Geometry(200, 100, 110, 10, 10)

\* Section 5 parameters with the payloads, point counts and grids tried
DecoderInputs ==
    { [nbit |-> 2, maxv |-> 1, level_values |-> <<10>>,
       payloads |-> SeqsUpTo({0, 1, 2, 3}, MaxPayload),
       points |-> 0..MaxPoints, grids |-> {TallGrid, LowGrid}],
      [nbit |-> 2, maxv |-> 2, level_values |-> <<10>>,
       payloads |-> SeqsUpTo({0, 2, 3}, MaxPayload),
       points |-> 0..MaxPoints, grids |-> {TallGrid}],
      [nbit |-> 2, maxv |-> 4, level_values |-> <<10, 20, 30>>,
       payloads |-> SeqsUpTo({0, 3, 5, 6}, MaxPayload),
       points |-> 0..MaxPoints, grids |-> {TallGrid}],
      [nbit |-> 8, maxv |-> 60, level_values |-> <<10, 20>>,
       payloads |-> SeqsUpTo({0, 2, 61}, MaxPayload),
       points |-> 0..MaxPoints, grids |-> {TallGrid, LowGrid}],
      [nbit |-> 4, maxv |-> 10,
       level_values |-> <<5, 10, 15, 20, 25, 30, 35, 40, 45, 50>>,
       payloads |-> {ExamplePayload},
       points |-> {21}, grids |-> {ExampleGrid}] }

\* the decoder is not in use (SpecExpand, SpecParse)
DecoderIdle ==
    /\ file = <<>> /\ pos = 0 /\ number_of_points = 0 /\ total_bytes = 0
    /\ lat_max = U32(0) /\ lon_min = U32(0) /\ lon_max = U32(0)
    /\ lat_inc = U32(0) /\ lon_inc = U32(0) /\ nbit = 0 /\ maxv = 0
    /\ lngu = 0 /\ level_values = <<>> /\ read_bytes = 0
    /\ current_lat = U32(0) /\ current_lon = U32(0) /\ current_level = 0
    /\ current_value = NoValue /\ returning_times = U32(0)
    /\ number_of_reads = 0 /\ pc = "idle" /\ items = <<>>

ExpandIdle == xin = [values |-> <<0>>, nbit |-> 0, maxv |-> 0, build |-> "debug"]
              /\ xout = [done |-> FALSE, panic |-> FALSE, level |-> 0, times |-> U32(0)]

ParseIdle ==
    /\ pfile = <<>> /\ ppos = 0 /\ ppc = 0 /\ product = "none"
    /\ parsed = <<>> /\ s3points = U32(0) /\ s5values = <<>> /\ s7runs = <<>>
    /\ presult = [kind |-> "none"]

\* no second value stream is in use
StreamsIdle == held = <<>> /\ solo = <<>> /\ running = 1

\* no path is opened by a constructor
OpenIdle ==
    /\ path = [new |-> TRUE, values |-> TRUE]
    /\ handle = "closed"
    /\ vresult = [kind |-> "none"]

\* read_i32 is not called as a unit
ReadIdle == rin = [reader |-> "none", bytes |-> <<>>]
            /\ rout = [done |-> FALSE, err |-> "", value |-> 0]

\* the arguments the product reader hands to Grib2ValueIter::new
\* (arf.rs:190-202, psw.rs:163-175): the reader is a fresh handle seeked to
\* run_length_position, total_bytes is Section 7's run_length_bytes
Init ==
    /\ \E d \in DecoderInputs :
         /\ nbit = d.nbit
         /\ maxv = d.maxv
         /\ level_values = d.level_values
         /\ number_of_points \in d.points
         /\ \E payload \in d.payloads, tail \in Tails :
              /\ file = payload \o tail
              /\ total_bytes = Len(payload)
         /\ \E g \in d.grids :
              /\ lat_max = g.lat_max
              /\ lon_min = g.lon_min
              /\ lon_max = g.lon_max
              /\ lat_inc = g.lat_inc
              /\ lon_inc = g.lon_inc
    /\ build \in Builds
    /\ pos = 0
    /\ lngu = 0
    /\ read_bytes = 0
    /\ current_lat = U32(0)
    /\ current_lon = U32(0)
    /\ current_level = 0
    /\ current_value = NoValue
    /\ returning_times = U32(0)
    /\ number_of_reads = 0
    /\ pc = "start"
    /\ items = <<>>
    /\ ExpandIdle
    /\ ParseIdle
    /\ OpenIdle
    /\ StreamsIdle
    /\ ReadIdle

Next == Grib2ValueIter_new \/ Grib2ValueIter_next

Spec == Init /\ [][Next]_vars

----------------------------------------------------------------------------
(* expand_run_length as a unit: the inputs of SpecExpand.                  *)

MaxDigits == 2       \* most run-length digits in an enumerated group

\* groups for NBIT = 4, MAXV = 10 (the parameters of the unit tests,
\* grib2_value_iter.rs:288-326): a first symbol, then digits
TestGroups ==
    { <<l>> \o ds : l \in {0, 3, 4, 9, 11}, ds \in SeqsUpTo({11, 12, 13, 15}, MaxDigits) }

\* groups whose digits carry a weight of 2^32 or more
LongGroups ==
    { [values |-> <<0, 128, 128, 128, 128, 129>>, nbit |-> 8, maxv |-> 127],
      [values |-> <<0, 128, 128, 128, 128, 128, 129>>, nbit |-> 8, maxv |-> 127],
      [values |-> <<0, 255, 255, 255, 255, 255>>, nbit |-> 8, maxv |-> 0] }

\* a group of a MAXV above 2^NBIT - 1
WideGroups == { [values |-> <<0, 5>>, nbit |-> 2, maxv |-> 4] }

ExpandInputs ==
    { [values |-> g, nbit |-> 4, maxv |-> 10] : g \in TestGroups }
        \cup LongGroups \cup WideGroups

InitExpand ==
    /\ DecoderIdle
    /\ ParseIdle
    /\ OpenIdle
    /\ StreamsIdle
    /\ ReadIdle
    /\ build = "debug"
    /\ \E i \in ExpandInputs, b \in Builds :
         xin = [values |-> i.values, nbit |-> i.nbit, maxv |-> i.maxv, build |-> b]
    /\ xout = [done |-> FALSE, panic |-> FALSE, level |-> 0, times |-> U32(0)]

\* one call expand_run_length(&values, maxv, lngu), lngu as new() computes it
expand_call ==
    /\ pc = "idle"
    /\ ~xout.done
    /\ \E r \in {expand_run_length(xin.values, xin.maxv,
                                   lngu_of(xin.nbit, xin.maxv).v, xin.build)} :
         xout' = [done |-> TRUE, panic |-> r.panic, level |-> r.level,
                  times |-> r.times]
    /\ UNCHANGED <<xin, dvars, pvars, svars, rvars, ovars>>

NextExpand == expand_call

SpecExpand == InitExpand /\ [][NextExpand]_vars

----------------------------------------------------------------------------
(* Several value streams at once: the caller holds two Grib2ValueIter and  *)
(* calls next() on them in any order. A stream borrows its reader mutably  *)
(* (value_iter(&mut self) -> Grib2ValueIter<'_>), so the two streams come  *)
(* from two readers of the same file. Each stream is first consumed alone, *)
(* then both are opened again and interleaved.                             *)

\* the payloads of the streams (NBIT = 2, MAXV = 1, one level value): single
\* levels, levels with run-length digits, a payload that starts with a digit
StreamPayloads ==
    {<<0>>, <<1, 2>>, <<1, 0>>, <<0, 3, 1>>, <<1, 1, 0>>, <<0, 2, 2>>, <<2, 1>>}

\* the tanks or forecast hours a stream can be opened on
StreamInputs == [payload : StreamPayloads, points : {2, 3}]

\* value_iter (psw.rs:150-176, arf.rs:180-203): a handle of its own on the
\* file, seeked to the payload of the tank, and the arguments of
\* Grib2ValueIter::new from the sections of the tank; new() has not run yet
value_iter(i) ==
    [file |-> i.payload \o NextSectionTail, pos |-> 0,
     number_of_points |-> i.points, total_bytes |-> Len(i.payload),
     lat_max |-> TallGrid.lat_max, lon_min |-> TallGrid.lon_min,
     lon_max |-> TallGrid.lon_max, lat_inc |-> TallGrid.lat_inc,
     lon_inc |-> TallGrid.lon_inc, nbit |-> 2, maxv |-> 1, lngu |-> 0,
     level_values |-> <<10>>, read_bytes |-> 0, current_lat |-> U32(0),
     current_lon |-> U32(0), current_level |-> 0, current_value |-> NoValue,
     returning_times |-> U32(0), number_of_reads |-> 0, pc |-> "start",
     items |-> <<>>]

\* the Grib2ValueIter whose fields the decoder's variables hold
\* (grib2_value_iter.rs:8-43), with the items the caller has got from it
This ==
    [file |-> file, pos |-> pos, number_of_points |-> number_of_points,
     total_bytes |-> total_bytes, lat_max |-> lat_max,
     lon_min |-> lon_min, lon_max |-> lon_max, lat_inc |-> lat_inc,
     lon_inc |-> lon_inc, nbit |-> nbit, maxv |-> maxv, lngu |-> lngu,
     level_values |-> level_values, read_bytes |-> read_bytes,
     current_lat |-> current_lat, current_lon |-> current_lon,
     current_level |-> current_level, current_value |-> current_value,
     returning_times |-> returning_times,
     number_of_reads |-> number_of_reads, pc |-> pc, items |-> items]

\* value_iter called again for the tank of the stream it
Reopened(it) ==
    value_iter([payload |-> SubSeq(it.file, 1, it.total_bytes),
                points |-> it.number_of_points])

\* streams that share one file handle: a stream reads on from where the
\* stream called before it has left the cursor
handle_cursor_shared(own, other) == other

\* the cursor a stream reads at when the caller calls it after another
\* stream: its own handle's (File::open in value_iter, psw.rs:152-154)
handle_cursor(own, other) == own

\* the caller turns to the stream it, whose handle's cursor is at
Resume(it, at) ==
    /\ pos' = at
    /\ file' = it.file
    /\ number_of_points' = it.number_of_points
    /\ total_bytes' = it.total_bytes
    /\ lat_max' = it.lat_max
    /\ lon_min' = it.lon_min
    /\ lon_max' = it.lon_max
    /\ lat_inc' = it.lat_inc
    /\ lon_inc' = it.lon_inc
    /\ nbit' = it.nbit
    /\ maxv' = it.maxv
    /\ lngu' = it.lngu
    /\ level_values' = it.level_values
    /\ read_bytes' = it.read_bytes
    /\ current_lat' = it.current_lat
    /\ current_lon' = it.current_lon
    /\ current_level' = it.current_level
    /\ current_value' = it.current_value
    /\ returning_times' = it.returning_times
    /\ number_of_reads' = it.number_of_reads
    /\ pc' = it.pc
    /\ items' = it.items

InitStreams ==
    /\ ExpandIdle
    /\ ParseIdle
    /\ OpenIdle
    /\ build \in Builds
    /\ \E a \in StreamInputs, b \in StreamInputs :
         /\ \E it \in {value_iter(a)} :
              /\ file = it.file
              /\ pos = it.pos
              /\ number_of_points = it.number_of_points
              /\ total_bytes = it.total_bytes
              /\ lat_max = it.lat_max
              /\ lon_min = it.lon_min
              /\ lon_max = it.lon_max
              /\ lat_inc = it.lat_inc
              /\ lon_inc = it.lon_inc
              /\ nbit = it.nbit
              /\ maxv = it.maxv
              /\ lngu = it.lngu
              /\ level_values = it.level_values
              /\ read_bytes = it.read_bytes
              /\ current_lat = it.current_lat
              /\ current_lon = it.current_lon
              /\ current_level = it.current_level
              /\ current_value = it.current_value
              /\ returning_times = it.returning_times
              /\ number_of_reads = it.number_of_reads
              /\ pc = it.pc
              /\ items = it.items
         /\ held = <<value_iter(b)>>
    /\ solo = <<>>
    /\ running = 1
    /\ ReadIdle

\* the caller has made all its calls on a stream consumed alone (or the
\* stream has panicked): what it returned is kept, and the caller turns to
\* the other stream; after both, the two streams are opened again
consumed_alone ==
    /\ Len(solo) < 2
    /\ held # <<>>
    /\ pc = "panicked" \/ (pc = "ready" /\ Len(items) = CallBound)
    /\ solo' = Append(solo, [items |-> items, pc |-> pc])
    /\ Resume(held[1], held[1].pos)
    /\ held' = <<Reopened(This)>>
    /\ running' = 3 - running
    /\ UNCHANGED <<build, xvars, pvars, rvars, ovars>>

\* between two calls of next() the caller turns from one of its two live
\* streams to the other
Switch ==
    /\ Len(solo) = 2
    /\ pc # "panicked"
    /\ Resume(held[1], handle_cursor(held[1].pos, pos))
    /\ held' = <<This>>
    /\ running' = 3 - running
    /\ UNCHANGED <<solo, build, xvars, pvars, rvars, ovars>>

NextStreams ==
    \/ Grib2ValueIter_new
    \/ Grib2ValueIter_next
    \/ consumed_alone
    \/ Switch

SpecStreams == InitStreams /\ [][NextStreams]_vars

----------------------------------------------------------------------------
(* Reading fields from the bytes of a file (sections.rs:1461-1593,         *)
(* analysis_rainfall_reader.rs:1003-1045, 1777-1868).                      *)

\* the n bytes at cursor p
Bytes(f, p, n) == SubSeq(f, p + 1, p + n)

\* from_be_bytes, for values below 2^31
RECURSIVE BE(_)
BE(bs) == IF bs = <<>> THEN 0 ELSE BE(SubSeq(bs, 1, Len(bs) - 1)) * 256 + bs[Len(bs)]

\* to_be_bytes
BE16(n) == <<n \div 256, n % 256>>
BE32(n) == <<n \div 16777216, (n \div 65536) % 256, (n \div 256) % 256, n % 256>>

\* a UTF-8 continuation byte in lo..hi
Cont(bs, i, lo, hi) == i <= Len(bs) /\ lo <= bs[i] /\ bs[i] <= hi

\* String::from_utf8 succeeds on bs from index i on (sections.rs:1471, 1552)
RECURSIVE from_utf8_ok(_, _)
from_utf8_ok(bs, i) ==
    IF i > Len(bs) THEN TRUE
    ELSE IF bs[i] < 128 THEN from_utf8_ok(bs, i + 1)
    ELSE IF 194 <= bs[i] /\ bs[i] <= 223
    THEN Cont(bs, i + 1, 128, 191) /\ from_utf8_ok(bs, i + 2)
    ELSE IF 224 <= bs[i] /\ bs[i] <= 239
    THEN /\ Cont(bs, i + 1, IF bs[i] = 224 THEN 160 ELSE 128,
                            IF bs[i] = 237 THEN 159 ELSE 191)
         /\ Cont(bs, i + 2, 128, 191)
         /\ from_utf8_ok(bs, i + 3)
    ELSE IF 240 <= bs[i] /\ bs[i] <= 244
    THEN /\ Cont(bs, i + 1, IF bs[i] = 240 THEN 144 ELSE 128,
                            IF bs[i] = 244 THEN 143 ELSE 191)
         /\ Cont(bs, i + 2, 128, 191)
         /\ Cont(bs, i + 3, 128, 191)
         /\ from_utf8_ok(bs, i + 4)
    ELSE FALSE

\* a calendar in which every month has 31 days
days_in_month_31(y, m) == 31

\* the days of month m of year y (Date::from_calendar_date, sections.rs:1573)
days_in_month(y, m) ==
    IF m = 2
    THEN (IF y % 4 = 0 /\ (y % 100 # 0 \/ y % 400 = 0) THEN 29 ELSE 28)
    ELSE IF m \in {4, 6, 9, 11} THEN 30 ELSE 31

\* the 7 bytes year(2) month day hour minute second make a date and a time
\* (sections.rs:1563-1590): Month::try_from, Date::from_calendar_date (years
\* up to 9999), Time::from_hms
datetime_ok(bs) ==
    /\ 1 <= bs[3] /\ bs[3] <= 12
    /\ BE(SubSeq(bs, 1, 2)) <= 9999
    /\ 1 <= bs[4] /\ bs[4] <= days_in_month(BE(SubSeq(bs, 1, 2)), bs[3])
    /\ bs[5] < 24 /\ bs[6] < 60 /\ bs[7] < 60

\* One field of a section: what is read, how many bytes, the value it must
\* have, and the error kind when it has another value.
Field(op, n, expect, bad) ==
    [op |-> op, n |-> n, expect |-> expect, bad |-> bad, quiet |-> FALSE]

\* a field whose error for a value other than the expected one says neither
Quiet(fld) == [fld EXCEPT !.quiet = TRUE]

\* read_number! (sections.rs:1488-1505, analysis_rainfall_reader.rs:1003-1020)
read_u8 == Field("read", 1, <<>>, "")
read_u16 == Field("read", 2, <<>>, "")
read_u32 == Field("read", 4, <<>>, "")
read_u64 == Field("read", 8, <<>>, "")
\* read_i32 (sections.rs:1507-1519)
read_i32 == Field("read", 4, <<>>, "")
\* a validate_u8 and a validate_u32 that take whatever value they read
validate_u8_any(expected) == Field("read", 1, <<>>, "")
validate_u32_any(expected) == Field("read", 4, <<>>, "")

\* a validate_u8 whose error does not say what was read and what was expected
validate_u8_quiet(expected) == Quiet(Field("validate", 1, <<expected>>, "Unexpected"))

\* validate_number! (sections.rs:1522-1544, analysis_rainfall_reader.rs:1023-1045)
validate_u8(expected) == Field("validate", 1, <<expected>>, "Unexpected")
validate_u32(expected) == Field("validate", 4, BE32(expected), "Unexpected")
\* validate_str (sections.rs:1461-1485)
validate_str(expected) == Field("validate_str", Len(expected), expected, "Unexpected")
\* read_u16 of a template number, then validate_template_number!
\* (sections.rs:592-604)
validate_template_number(expected) == Field("validate", 2, BE16(expected), "ReadError")
\* read_datetime (sections.rs:1557-1593)
read_datetime == Field("datetime", 7, <<>>, "Unexpected")
\* Inner::read_datetime with the caller's map_err
\* (analysis_rainfall_reader.rs:1798-1830, 1184-1186, 1519-1521)
Inner_read_datetime == Field("datetime", 7, <<>>, "ReadError")
\* Inner::seek_relative (analysis_rainfall_reader.rs:1864-1869): a seek past
\* the end of a file succeeds
Inner_seek_relative(n) == Field("seek", n, <<>>, "")

\* the error of reading the field fld at cursor p ("" when it succeeds):
\* read_exact fails when fewer than n bytes remain
FieldErr(f, p, fld) ==
    IF fld.op = "seek" THEN ""
    ELSE IF p + fld.n > Len(f) THEN "ReadError"
    ELSE IF fld.op = "read" THEN ""
    ELSE IF fld.op = "datetime"
    THEN (IF datetime_ok(Bytes(f, p, fld.n)) THEN "" ELSE fld.bad)
    ELSE IF fld.op = "validate_str"
    THEN (IF from_utf8_ok(Bytes(f, p, fld.n), 1) /\ Bytes(f, p, fld.n) = fld.expect
          THEN "" ELSE fld.bad)
    ELSE (IF Bytes(f, p, fld.n) = fld.expect THEN "" ELSE fld.bad)

\* u / 10 and u % 10 of a u32 u
DivMod10(u) ==
    [q |-> [hi |-> u.hi \div 10, lo |-> ((u.hi % 10) * W16 + u.lo) \div 10],
     r |-> ((u.hi % 10) * W16 + u.lo) % 10]

\* value.to_string(): the decimal digits of a u32, without leading zeros
RECURSIVE to_string(_)
to_string(u) ==
    IF u.hi = 0 /\ u.lo < 10 THEN <<u.lo>>
    ELSE Append(to_string(DivMod10(u).q), DivMod10(u).r)

\* the number that up to four big-endian bytes encode, as a u32
U32OfField(bs) == [hi |-> BE(SubSeq(bs, 1, Len(bs) - 2)),
                   lo |-> BE(SubSeq(bs, IF Len(bs) > 2 THEN Len(bs) - 1 ELSE 1, Len(bs)))]

\* An error message: the text of its format string and the renderings of the
\* value read and of the value expected that it is filled with (<<>> for a
\* message without them). The name of the field, which every message starts
\* with, is left out.
Message(text, value, expected) == [text |-> text, value |-> value, expected |-> expected]

\* the message of an error that names no value
Plain(text) == Message(text, <<>>, <<>>)

\* the message of the error of reading the field fld at cursor p: the map_err
\* of a short read, the format! of a value other than the expected one
FieldMsg(f, p, fld) ==
    IF p + fld.n > Len(f) THEN Plain("read")
    ELSE IF fld.op = "datetime" THEN Plain("datetime")
    ELSE IF fld.op = "validate_str"
    THEN (IF ~from_utf8_ok(Bytes(f, p, fld.n), 1) THEN Plain("utf8")
          ELSE IF fld.quiet THEN Plain("differs")
          ELSE Message("differs", Bytes(f, p, fld.n), fld.expect))
    ELSE IF fld.quiet THEN Plain("differs")
    ELSE Message("differs", to_string(U32OfField(Bytes(f, p, fld.n))),
                 to_string(U32OfField(fld.expect)))

\* the bytes of the field fld at cursor p
FieldVal(f, p, fld) == IF fld.op = "seek" THEN <<>> ELSE Bytes(f, p, fld.n)

\* the bytes of the first i fields (no field is longer than 8 bytes)
Offset(fields, i) ==
    Cardinality({x \in (1..i) \X (1..8) : x[2] <= fields[x[1]].n})

\* a sequence of fields with the offset at which each one ends
Layout(fields) ==
    [fields |-> fields, off |-> [i \in 0..Len(fields) |-> Offset(fields, i)]]

\* the least number of a non-empty set of numbers
Least(S) == CHOOSE m \in S : \A k \in S : m <= k

\* the fields that cannot be read where the layout puts them
Failing(f, p, lay) ==
    {i \in 1..Len(lay.fields) : FieldErr(f, p + lay.off[i - 1], lay.fields[i]) # ""}

\* the fields before field k read, and the error of field k if there is one
WalkTo(f, p, lay, k) ==
    [err |-> IF k > Len(lay.fields) THEN ""
             ELSE FieldErr(f, p + lay.off[k - 1], lay.fields[k]),
     msg |-> IF k > Len(lay.fields) THEN Plain("")
             ELSE FieldMsg(f, p + lay.off[k - 1], lay.fields[k]),
     pos |-> p + lay.off[k - 1],
     vals |-> [i \in 1..(k - 1) |-> FieldVal(f, p + lay.off[i - 1], lay.fields[i])]]

\* the fields of a layout read one after the other with ? from cursor p:
\* the first error (or ""), the cursor, and the values read
Walk(f, p, lay) ==
    WalkTo(f, p, lay, Least(Failing(f, p, lay) \cup {Len(lay.fields) + 1}))

\* a result that is an error of kind e with the message msg
FailedWith(e, p, msg) == [err |-> e, msg |-> msg, pos |-> p, vals |-> <<>>]

\* a result that is an error of kind e whose message names no value
Failed(e, p) == FailedWith(e, p, Plain(e))

\* i32::from_be_bytes: the two's-complement value of four big-endian bytes
i32_from_be_bytes(buf) ==
    IF buf[1] < 128 THEN BE(buf)
    ELSE (BE(<<buf[1] - 128>> \o SubSeq(buf, 2, 4)) - 2147483647) - 1

\* the value of read_i32 of sections.rs (1507-1519): the sign from the top
\* bit of buf[0], buf[0] &= 0x7F, then from_be_bytes times the sign
read_i32_value(buf) ==
    i32_from_be_bytes(<<buf[1] % 128>> \o SubSeq(buf, 2, 4))
        * (IF (buf[1] \div 128) % 2 = 0 THEN 1 ELSE -1)

\* the value of Inner::read_i32, read_number!(read_i32, i32)
\* (analysis_rainfall_reader.rs:1843, grib2_reader.rs:1944): from_be_bytes
Inner_read_i32_value(buf) == i32_from_be_bytes(buf)

\* n read_u16 in a row (sections.rs:1273-1276)
ReadLevels(f, p, n) == Walk(f, p, Layout([i \in 1..n |-> read_u16]))

----------------------------------------------------------------------------
(* read_i32 as a unit: the readers that have one and the bytes tried (the  *)
(* forecast time of Section 4 is read with it).                            *)

I32Readers == {"sections", "analysis_rainfall_reader", "grib2_reader"}

\* four bytes with every top bit and the extremes of the magnitude, and
\* three bytes before the end of the file
I32Bytes ==
    {<<a, b, c, d>> : a \in {0, 1, 127, 128, 129, 255}, b \in {0, 255},
                      c \in {0, 255}, d \in {0, 1, 3, 255}}
    \cup {<<128, 0, 3>>}

InitReadI32 ==
    /\ DecoderIdle
    /\ ExpandIdle
    /\ ParseIdle
    /\ OpenIdle
    /\ StreamsIdle
    /\ build \in Builds
    /\ rin \in [reader : I32Readers, bytes : I32Bytes]
    /\ rout = [done |-> FALSE, err |-> "", value |-> 0]

\* read_exact of four bytes fails on fewer; then the reader's decoding
read_i32_of(reader, buf) ==
    IF Len(buf) < 4 THEN [done |-> TRUE, err |-> "ReadError", value |-> 0]
    ELSE [done |-> TRUE, err |-> "",
          value |-> IF reader = "sections" THEN read_i32_value(buf)
                    ELSE Inner_read_i32_value(buf)]

\* read_i32 of sections.rs
read_i32_call ==
    /\ rin.reader = "sections"
    /\ ~rout.done
    /\ rout' = read_i32_of(rin.reader, rin.bytes)
    /\ UNCHANGED <<rin, dvars, xvars, pvars, svars, ovars>>

\* Inner::read_i32 of analysis_rainfall_reader.rs and of grib2_reader.rs
Inner_read_i32_call ==
    /\ rin.reader # "sections"
    /\ ~rout.done
    /\ rout' = read_i32_of(rin.reader, rin.bytes)
    /\ UNCHANGED <<rin, dvars, xvars, pvars, svars, ovars>>

NextReadI32 == read_i32_call \/ Inner_read_i32_call

SpecReadI32 == InitReadI32 /\ [][NextReadI32]_vars

----------------------------------------------------------------------------
(* read_datetime as a unit: the function of sections.rs and the method of  *)
(* Inner, on the seven bytes at the cursor.                                *)

DatetimeReaders == {"sections", "analysis_rainfall_reader"}

\* years with and without a 29th of February, months and days around the
\* ends of their ranges, times with one part out of range
DatetimeYears == {1900, 2000, 2023, 2024}
DatetimeMonths == {0, 1, 2, 4, 12, 13}
DatetimeDays == {0, 1, 28, 29, 30, 31, 32}
DatetimeTimes == {<<0, 0, 0>>, <<23, 59, 59>>, <<24, 0, 0>>, <<0, 60, 0>>, <<0, 0, 60>>}

\* the seven bytes of the dates tried, and six bytes before the end of the file
DatetimeBytes ==
    {BE16(y) \o <<m, d>> \o t :
        y \in DatetimeYears, m \in DatetimeMonths, d \in DatetimeDays,
        t \in DatetimeTimes}
    \cup {<<7, 231, 3, 16, 0, 0>>}

InitReadDatetime ==
    /\ DecoderIdle
    /\ ExpandIdle
    /\ ParseIdle
    /\ OpenIdle
    /\ StreamsIdle
    /\ build \in Builds
    /\ rin \in [reader : DatetimeReaders, bytes : DatetimeBytes]
    /\ rout = [done |-> FALSE, err |-> "", value |-> 0]

\* the date and time that seven bytes read as: read_u16, then five read_u8
datetime_of(bs) ==
    [year |-> BE(SubSeq(bs, 1, 2)), month |-> bs[3], day |-> bs[4],
     hour |-> bs[5], minute |-> bs[6], second |-> bs[7], bytes |-> Len(bs)]

\* read_datetime on the bytes buf: the error of the field, or its value
read_datetime_of(buf, fld) ==
    [done |-> TRUE, err |-> FieldErr(buf, 0, fld),
     value |-> IF FieldErr(buf, 0, fld) = "" THEN datetime_of(FieldVal(buf, 0, fld))
               ELSE 0]

\* read_datetime of sections.rs
read_datetime_call ==
    /\ rin.reader = "sections"
    /\ ~rout.done
    /\ rout' = read_datetime_of(rin.bytes, read_datetime)
    /\ UNCHANGED <<rin, dvars, xvars, pvars, svars, ovars>>

\* Inner::read_datetime (analysis_rainfall_reader.rs:1798-1836), before the
\* map_err of the section that calls it
Inner_read_datetime_call ==
    /\ rin.reader # "sections"
    /\ ~rout.done
    /\ rout' = read_datetime_of(rin.bytes, [Inner_read_datetime EXCEPT !.bad = "Unexpected"])
    /\ UNCHANGED <<rin, dvars, xvars, pvars, svars, ovars>>

NextReadDatetime == read_datetime_call \/ Inner_read_datetime_call

SpecReadDatetime == InitReadDatetime /\ [][NextReadDatetime]_vars

----------------------------------------------------------------------------
(* The sections of grib2/src/reader/sections.rs.                           *)

FarPastEnd == 1073741824   \* a length or cursor from here on is only known to be past the end of every file

EDITION_NUMBER == 2
SECTION1_BYTES == 21
LAT_LON_GRID_DEFINITION_TEMPLATE_NUMBER == 0
DEFAULT_PRODUCT_DEFINITION_TEMPLATE_NUMBER == 0
RADAR_PRODUCT_DEFINITION_TEMPLATE_NUMBER == 50008
RUN_LENGTH_DATA_REPRESENTATION_TEMPLATE_NUMBER == 200
SECTION6_BYTES == 6
GRIB == <<71, 82, 73, 66>>
SECTION8_END_MARKER == <<55, 55, 55, 55>>

\* u32::from_be_bytes, as two 16-bit limbs
U32OfBytes(bs) == [hi |-> BE(SubSeq(bs, 1, 2)), lo |-> BE(SubSeq(bs, 3, 4))]

\* `as usize` of a u32
usize_of(u) == IF u.hi >= 16384 THEN FarPastEnd ELSE u.hi * W16 + u.lo

\* a cursor moved n bytes forward
Forward(p, n) == IF p + n >= FarPastEnd THEN FarPastEnd ELSE p + n

Section0_fields ==
    Layout(<<validate_str(GRIB), read_u16, read_u8,
                     validate_u8(EDITION_NUMBER), read_u64>>)

Section0_from_reader(f, p) == Walk(f, p, Section0_fields)

Section1_fields ==
    Layout(<<validate_u32(SECTION1_BYTES), validate_u8(1), read_u16,
                     read_u16, read_u8, read_u8, read_u8, read_datetime,
                     read_u8, read_u8>>)

Section1_from_reader(f, p) == Walk(f, p, Section1_fields)

\* Section 2 is not in the files: nothing is read
Section2_from_reader(f, p) == [err |-> "", pos |-> p, vals |-> <<>>]

Template3_0_fields == <<read_u8, read_u8, read_u32, read_u8, read_u32, read_u8,
                        read_u32, read_u32, read_u32, read_u32, read_u32,
                        read_u32, read_u32, read_u8, read_u32, read_u32,
                        read_u32, read_u32, read_u8>>

\* Section3<Template3_0>: vals[4] is number_of_data_points
Section3_0_fields ==
    Layout(<<read_u32, validate_u8(3), read_u8, read_u32, read_u8, read_u8,
             validate_template_number(LAT_LON_GRID_DEFINITION_TEMPLATE_NUMBER)>>
           \o Template3_0_fields)

Section3_0_from_reader(f, p) == Walk(f, p, Section3_0_fields)

Template4_0_fields == <<read_u8, read_u8, read_u8, read_u8, read_u8, read_u16,
                        read_u8, read_u8, read_i32, read_u8, read_u8, read_u32,
                        read_u8, read_u8, read_u32>>

Template4_50008_fields ==
    Template4_0_fields
    \o <<read_datetime, read_u8, read_u32, read_u8, read_u8, read_u8, read_u32,
         read_u8, read_u32, read_u64, read_u64, read_u64>>

Section4_fields(template_number, template) ==
    <<read_u32, validate_u8(4), read_u16, validate_template_number(template_number)>>
    \o template

Section4_0_fields ==
    Layout(Section4_fields(DEFAULT_PRODUCT_DEFINITION_TEMPLATE_NUMBER,
                           Template4_0_fields))

Section4_50008_fields ==
    Layout(Section4_fields(RADAR_PRODUCT_DEFINITION_TEMPLATE_NUMBER,
                           Template4_50008_fields))

Section4_0_from_reader(f, p) == Walk(f, p, Section4_0_fields)

Section4_50008_from_reader(f, p) == Walk(f, p, Section4_50008_fields)

\* the fields of Section 5 before its template, and the fields of template
\* 5.200 before its level values
Section5_fields == Layout(<<read_u32, validate_u8(5), read_u32, read_u16, read_u8>>)

Template5_200_fields == Layout(<<read_u16, read_u16, read_u8>>)

\* the fields of Section 7 before its template
Section7_fields == Layout(<<read_u32, validate_u8(7)>>)

\* a - b on usize: a panic in a debug build when it underflows; in a release
\* build the difference wraps to a length past the end of every file
SubUsize(a, b, bld) ==
    IF a >= b THEN [panic |-> FALSE, v |-> a - b, wrapped |-> FALSE]
    ELSE [panic |-> bld = "debug", v |-> FarPastEnd, wrapped |-> TRUE]

\* the loop over the level values (sections.rs:1272-1276): number_of_levels
\* reads of two bytes; more levels than the file has bytes end at the first
\* read past the end
Template5_200_levels(f, h, t, n) ==
    [err |-> n.err, msg |-> n.msg, pos |-> n.pos, vals |-> h.vals \o t.vals \o n.vals]

Template5_200_loop(f, h, t, levels) ==
    Template5_200_levels(f, h, t,
        ReadLevels(f, t.pos, IF levels > (Len(f) - t.pos) \div 2
                             THEN (Len(f) - t.pos) \div 2 + 1 ELSE levels))

\* a template that takes the bytes left for the level values as their number
Template5_200_count_bytes(f, h, t, d) ==
    IF d.panic THEN Failed("panic", t.pos)
    ELSE Template5_200_loop(f, h, t, d.v)

Template5_200_count(f, h, t, d) ==
    IF d.panic THEN Failed("panic", t.pos)
    ELSE Template5_200_loop(f, h, t, d.v \div 2)

Template5_200_body(f, h, t, template_bytes, bld) ==
    IF t.err # "" THEN t
    ELSE Template5_200_count(f, h, t, SubUsize(template_bytes, 2 + 2 + 1, bld))

\* Template5_200::from_reader: the template number, then max_level_value,
\* number_of_level_values, decimal_scale_factor and the level values
Template5_200_from_reader(f, h, template_bytes, bld) ==
    IF h.vals[4] # BE16(RUN_LENGTH_DATA_REPRESENTATION_TEMPLATE_NUMBER)
    THEN FailedWith("ReadError", h.pos,
             Message("differs", to_string(U32OfField(h.vals[4])),
                     to_string(U32(RUN_LENGTH_DATA_REPRESENTATION_TEMPLATE_NUMBER))))
    ELSE Template5_200_body(f, h, Walk(f, h.pos, Template5_200_fields),
                            template_bytes, bld)

Section5_template(f, h, d, bld) ==
    IF d.panic THEN Failed("panic", h.pos)
    ELSE Template5_200_from_reader(f, h, d.v, bld)

Section5_header(f, h, bld) ==
    IF h.err # "" THEN h
    ELSE Section5_template(f, h,
             SubUsize(usize_of(U32OfBytes(h.vals[1])), 4 + 1 + 4 + 2 + 1, bld), bld)

\* Section5<Template5_200>: vals[3] is number_of_values, vals[5]
\* bits_per_value, vals[6] max_level_value, vals[9..] the level values
Section5_200_from_reader(f, p, bld) ==
    Section5_header(f, Walk(f, p, Section5_fields), bld)

Section6_fields ==
    Layout(<<validate_u32(SECTION6_BYTES), validate_u8(6), read_u8>>)

Section6_from_reader(f, p) == Walk(f, p, Section6_fields)

\* Template7_200::from_reader: the cursor is remembered, then moved over the
\* payload. A wrapped length is a negative offset as i64: the cursor moves
\* back by the bytes the declared length is short of the header
Template7_200_from_reader(h, len, d) ==
    IF d.panic THEN Failed("panic", h.pos)
    ELSE [err |-> "", vals |-> h.vals,
          pos |-> IF d.wrapped THEN h.pos - (5 - len) ELSE Forward(h.pos, d.v),
          run_length_position |-> h.pos, run_length_bytes |-> d.v]

Section7_header(h, bld) ==
    IF h.err # "" THEN h
    ELSE Template7_200_from_reader(h, usize_of(U32OfBytes(h.vals[1])),
             SubUsize(usize_of(U32OfBytes(h.vals[1])), 4 + 1, bld))

Section7_200_from_reader(f, p, bld) ==
    Section7_header(Walk(f, p, Section7_fields), bld)

\* Section8::from_reader: every error of read_str is a ReadError, another
\* marker is Unexpected
Section8_from_reader(f, p) ==
    IF p + 4 > Len(f) \/ ~from_utf8_ok(Bytes(f, p, 4), 1)
    THEN Failed("ReadError", p)
    ELSE IF Bytes(f, p, 4) # SECTION8_END_MARKER
    THEN FailedWith("Unexpected", p,
             Message("differs", Bytes(f, p, 4), SECTION8_END_MARKER))
    ELSE [err |-> "", pos |-> p + 4, vals |-> <<Bytes(f, p, 4)>>]

----------------------------------------------------------------------------
(* The sections of src/reader/analysis_rainfall_reader.rs (Inner). The     *)
(* reader's cursor and Inner.read_bytes move together; the files here are  *)
(* shorter than the reader's buffer, so read() is short only at the end    *)
(* of the file.                                                            *)

SECTION0_BYTES == 16
SECTION3_BYTES == 72

\* the check of the bytes read in a section against its length: r was read
\* from cursor p, the section's length is section_bytes
Inner_size_check(r, p, section_bytes) ==
    IF r.err # "" THEN r
    ELSE IF section_bytes # r.pos - p THEN Failed("ReadError", r.pos)
    ELSE r

\* read_str(4) with map_err, then the comparison with "GRIB"
Inner_section0_fields ==
    Layout(<<Quiet(Field("validate_str", 4, GRIB, "ReadError")), Inner_seek_relative(2),
      read_u8, validate_u8(EDITION_NUMBER), read_u64>>)

Inner_read_section0(f, p) ==
    Inner_size_check(Walk(f, p, Inner_section0_fields), 0, SECTION0_BYTES)

Inner_section1_fields ==
    Layout(<<validate_u32(SECTION1_BYTES), validate_u8(1), read_u16, read_u16, read_u8,
      read_u8, read_u8, Inner_read_datetime, read_u8, read_u8>>)

Inner_read_section1(f, p) ==
    Inner_size_check(Walk(f, p, Inner_section1_fields), p, SECTION1_BYTES)

Inner_read_section2(f, p) == [err |-> "", pos |-> p, vals |-> <<>>]

\* vals[4] is number_of_data_points
Inner_section3_fields ==
    Layout(<<validate_u32(SECTION3_BYTES), validate_u8(3), read_u8, read_u32, read_u8,
      read_u8, read_u16, read_u8, Inner_seek_relative(1), Inner_seek_relative(4),
      read_u8, read_u32, read_u8, read_u32, read_u32, read_u32, read_u32,
      Inner_seek_relative(4), read_u32, read_u32, read_u8, read_u32, read_u32,
      read_u32, read_u32, read_u8>>)

Inner_read_section3(f, p) ==
    Inner_size_check(Walk(f, p, Inner_section3_fields), p, SECTION3_BYTES)

Inner_section4_fields ==
    Layout(<<read_u32, validate_u8(4), read_u16, read_u16, read_u8, read_u8, read_u8,
      read_u8, Inner_seek_relative(1), read_u16, read_u8, read_u8, read_i32,
      read_u8, Inner_seek_relative(1), Inner_seek_relative(4),
      Inner_seek_relative(1), Inner_seek_relative(1), Inner_seek_relative(4),
      Inner_read_datetime, read_u8, read_u32, read_u8, read_u8, read_u8,
      read_u32, read_u8, read_u32, read_u64, read_u64, read_u64>>)

Inner_section4_check(r, p) ==
    IF r.err # "" THEN r
    ELSE Inner_size_check(r, p, usize_of(U32OfBytes(r.vals[1])))

Inner_read_section4(f, p) ==
    Inner_section4_check(Walk(f, p, Inner_section4_fields), p)

Inner_section5_levels(h, n) ==
    [err |-> n.err, msg |-> n.msg, pos |-> n.pos, vals |-> h.vals \o n.vals]

\* (section_bytes - 17) as u16 / 2 reads of two bytes, then the size check
Inner_section5_loop(f, p, h, levels) ==
    Inner_size_check(
        Inner_section5_levels(h,
            ReadLevels(f, h.pos, IF levels > (Len(f) - h.pos) \div 2
                                 THEN (Len(f) - h.pos) \div 2 + 1 ELSE levels)),
        p, usize_of(U32OfBytes(h.vals[1])))

Inner_section5_count(f, p, h, len, bld) ==
    IF len.hi = 0 /\ len.lo < 17 /\ bld = "debug" THEN Failed("panic", h.pos)
    ELSE Inner_section5_loop(f, p, h, ((len.lo + W16 - 17) % W16) \div 2)

Inner_section5_header(f, p, h, bld) ==
    IF h.err # "" THEN h
    ELSE Inner_section5_count(f, p, h, U32OfBytes(h.vals[1]), bld)

Inner_section5_fields ==
    Layout(<<read_u32, validate_u8(5), read_u32, read_u16, read_u8, read_u16,
             read_u16, read_u8>>)

\* vals[3] is number_of_values
Inner_read_section5(f, p, bld) ==
    Inner_section5_header(f, p,
        Walk(f, p, Inner_section5_fields), bld)

Inner_read_section6(f, p) ==
    Inner_size_check(Walk(f, p, Section6_fields), p, SECTION6_BYTES)

Inner_read_section7(f, p, bld) ==
    Section7_header(Walk(f, p, Section7_fields), bld)

\* read_str(4) with map_err, then the comparison with "7777"
Inner_section8_fields ==
    Layout(<<Field("validate_str", 4, SECTION8_END_MARKER, "ReadError")>>)

Inner_read_section8(f, p) ==
    Walk(f, p, Inner_section8_fields)

----------------------------------------------------------------------------
(* Reader construction: the files of SpecParse.                            *)

Zeros(n) == [i \in 1..n |-> 0]

\* 2023-03-16 00:00:00
File_datetime == BE16(2023) \o <<3, 16, 0, 0, 0>>

\* the value a file of input i has for a field: bad when the input's damage
\* is the one called name, good otherwise
Dmg(i, name, bad, good) == IF i.damage = name THEN bad ELSE good

File_Section0(magic, edition) == magic \o <<0, 0, 0, edition>> \o Zeros(8)

File_Section1(i) ==
    BE32(Dmg(i, "section1_length", 22, SECTION1_BYTES))
    \o <<Dmg(i, "section1_number", 9, 1)>>
    \o BE16(34) \o BE16(0) \o <<2, 1, 0>> \o File_datetime \o <<0, 2>>

File_Section3(i) ==
    BE32(Dmg(i, "section3_length", 73, 72))
    \o <<Dmg(i, "section3_number", 9, 3), 0>> \o BE32(i.points) \o <<0, 0>>
    \o BE16(Dmg(i, "section3_template", 1, LAT_LON_GRID_DEFINITION_TEMPLATE_NUMBER))
    \o Zeros(58)

\* the forecast time of the files: -3 in sign-magnitude
File_forecast_time == <<128, 0, 0, 3>>

\* the 25 bytes of template 4.0
File_Template4_0 == Zeros(9) \o File_forecast_time \o Zeros(12)

File_Section4_0(i) ==
    BE32(Dmg(i, "section4_length", 35, 34))
    \o <<Dmg(i, "section4_number", 9, 4)>> \o BE16(0)
    \o BE16(Dmg(i, "section4_template", 1, DEFAULT_PRODUCT_DEFINITION_TEMPLATE_NUMBER))
    \o File_Template4_0

File_Section4_50008(i) ==
    BE32(Dmg(i, "section4_length", 83, 82))
    \o <<Dmg(i, "section4_number", 9, 4)>> \o BE16(0)
    \o BE16(Dmg(i, "section4_template", 50009, RADAR_PRODUCT_DEFINITION_TEMPLATE_NUMBER))
    \o File_Template4_0 \o File_datetime \o Zeros(41)

\* a Section 5 with two level values
File_Section5(i, values) ==
    BE32(Dmg(i, "section5_short", 11, Dmg(i, "section5_length", 22, 21)))
    \o <<Dmg(i, "section5_number", 9, 5)>> \o BE32(values)
    \o BE16(Dmg(i, "section5_template", 201, RUN_LENGTH_DATA_REPRESENTATION_TEMPLATE_NUMBER))
    \o <<8>> \o BE16(2) \o BE16(2) \o <<1>> \o BE16(10) \o BE16(20)

File_Section6(i) ==
    BE32(Dmg(i, "section6_length", 7, SECTION6_BYTES))
    \o <<Dmg(i, "section6_number", 9, 6), 255>>

\* a Section 7 with a payload of three bytes
File_Section7(i) ==
    BE32(Dmg(i, "section7_short", 3, Dmg(i, "section7_long", 9, 8)))
    \o <<Dmg(i, "section7_number", 9, 7)>>
    \o <<0, 1, 3>>

\* the Sections 4 to 7 of one tank or of the one product
File_Sections4to7(section4, i, values) ==
    section4 \o File_Section5(i, values) \o File_Section6(i) \o File_Section7(i)

File_body(i) ==
    IF i.product = "aswi"
    THEN File_Sections4to7(File_Section4_0(i), i, i.values[1])
         \o File_Sections4to7(File_Section4_0(i), i, i.values[2])
         \o File_Sections4to7(File_Section4_0(i), i, i.values[3])
    ELSE File_Sections4to7(File_Section4_50008(i), i, i.values[1])

File_whole(i) ==
    File_Section0(i.magic, i.edition) \o File_Section1(i) \o File_Section3(i)
    \o File_body(i) \o i.marker

\* the file of input i; a truncated file ends inside its first Section 4
File(i) ==
    IF i.damage = "truncated" THEN SubSeq(File_whole(i), 1, 120) ELSE File_whole(i)

Products == {"arf", "aswi", "analysis_rainfall"}
Magics == {GRIB, <<71, 82, 73, 88>>, <<255, 82, 73, 66>>}
Editions == {EDITION_NUMBER, 1}
Markers == {SECTION8_END_MARKER, <<55, 55, 55, 56>>, <<255, 55, 55, 55>>, <<55, 55>>}
PointCounts == {2, 3}
Damages ==
    {"none", "truncated",
     "section1_length", "section3_length", "section4_length", "section5_length",
     "section5_short", "section6_length", "section7_short", "section7_long",
     "section1_number", "section3_number", "section4_number", "section5_number",
     "section6_number", "section7_number",
     "section3_template", "section4_template", "section5_template"}

\* number_of_values of the Section 5 (three of them in an aswi file)
ValueCounts(prod) ==
    IF prod = "aswi" THEN [1..3 -> PointCounts] ELSE [1..1 -> PointCounts]

\* files with one format constant altered, a wrong count or one damage
ParseInputs ==
    { [product |-> pr, magic |-> mg, edition |-> ed, marker |-> mk,
       points |-> pt, values |-> vs, damage |-> dm] :
        pr \in Products, mg \in Magics, ed \in Editions, mk \in Markers,
        pt \in PointCounts, vs \in UNION {ValueCounts(q) : q \in Products},
        dm \in Damages }

\* constructors that parse Section 2 before Section 1; C14 must tell them
\* from the constructors
Steps_section2_first(prod) ==
    IF prod = "arf"
    THEN <<"Section0", "Section2", "Section1", "Section3_0", "Section4_50008",
           "Section5_200", "Section6", "Section7_200", "Section8", "ArfReader">>
    ELSE IF prod = "aswi"
    THEN <<"Section0", "Section2", "Section1", "Section3_0",
           "Section4_0", "Section5_200", "Section6", "Section7_200",
           "Section4_0", "Section5_200", "Section6", "Section7_200",
           "Section4_0", "Section5_200", "Section6", "Section7_200",
           "Section8", "AswiReader">>
    ELSE <<"read_section0", "read_section2", "read_section1", "read_section3",
           "read_section4", "read_section5", "read_section6", "read_section7",
           "read_section8", "AnalysisRainfallReader">>

\* the sections a constructor parses, in its order, then its return
Steps(prod) ==
    IF prod = "arf"
    THEN <<"Section0", "Section1", "Section2", "Section3_0", "Section4_50008",
           "Section5_200", "Section6", "Section7_200", "Section8", "ArfReader">>
    ELSE IF prod = "aswi"
    THEN <<"Section0", "Section1", "Section2", "Section3_0",
           "Section4_0", "Section5_200", "Section6", "Section7_200",
           "Section4_0", "Section5_200", "Section6", "Section7_200",
           "Section4_0", "Section5_200", "Section6", "Section7_200",
           "Section8", "AswiReader">>
    ELSE <<"read_section0", "read_section1", "read_section2", "read_section3",
           "read_section4", "read_section5", "read_section6", "read_section7",
           "read_section8", "AnalysisRainfallReader">>

\* a path that opens, one that opens for new() and no longer for values(),
\* and one that does not open
Paths == {[new |-> TRUE, values |-> TRUE], [new |-> TRUE, values |-> FALSE],
          [new |-> FALSE, values |-> FALSE]}

\* the file of input i is well formed but for its counts
Undamaged(i) ==
    /\ i.damage = "none"
    /\ i.magic = GRIB
    /\ i.edition = EDITION_NUMBER
    /\ i.marker = SECTION8_END_MARKER

\* the paths that do not open are tried with the files that are well formed
InitParse ==
    /\ DecoderIdle
    /\ ExpandIdle
    /\ StreamsIdle
    /\ ReadIdle
    /\ build \in Builds
    /\ \E i \in ParseInputs :
         /\ i.values \in ValueCounts(i.product)
         /\ product = i.product
         /\ pfile = File(i)
         /\ path \in {q \in Paths : (q.new /\ q.values) \/ Undamaged(i)}
    /\ handle = "closed"
    /\ vresult = [kind |-> "none"]
    /\ ppos = 0
    /\ ppc = 1
    /\ parsed = <<>>
    /\ s3points = U32(0)
    /\ s5values = <<>>
    /\ s7runs = <<>>
    /\ presult = [kind |-> "none"]

----------------------------------------------------------------------------
(* Reader construction: one action per section a constructor parses, and   *)
(* one for the end of each constructor.                                    *)

\* the constructor is about to run the step called name
At(name) == handle = "open" /\ ppc > 0 /\ Steps(product)[ppc] = name

\* an open that reports every failure as a read error
open_error_read == "ReadError"

\* the kind of the error a failed File::open is mapped to (arf.rs:57-58,
\* 181-182: map_err to ReaderError::NotFount)
open_error == "NotFound"

\* File::open and FileReader::new at the start of a constructor
\* (arf.rs:57-59, aswi_reader.rs:65-67, analysis_rainfall_reader.rs:35-37)
File_open ==
    /\ handle = "closed"
    /\ ppc = 1
    /\ presult.kind = "none"
    /\ IF path.new
       THEN /\ handle' = "open"
            /\ UNCHANGED <<presult, ppc>>
       ELSE /\ presult' = [kind |-> open_error, msg |-> Plain("open")]
            /\ ppc' = 0
            /\ UNCHANGED handle
    /\ UNCHANGED <<dvars, xvars, svars, rvars, path, vresult,
                   pfile, ppos, product, parsed, s3points, s5values, s7runs>>

\* values() of the reader constructed (arf.rs:180-203,
\* aswi_reader.rs:160-189, analysis_rainfall_reader.rs:644-668): File::open,
\* then a seek to the payload a Section 7 has recorded
Reader_values ==
    /\ ppc = 0
    /\ presult.kind = "Ok"
    /\ vresult.kind = "none"
    /\ \E tank \in DOMAIN s7runs :
         vresult' = IF path.values
                    THEN [kind |-> "Ok", pos |-> s7runs[tank].run_length_position,
                          total_bytes |-> s7runs[tank].run_length_bytes]
                    ELSE [kind |-> open_error, msg |-> Plain("open")]
    /\ UNCHANGED <<dvars, xvars, svars, rvars, pvars, path, handle>>

\* a constructor that wraps the error of a section in its own error
\* (map_err) instead of passing it on with ?
Advance_map_err(number, r) ==
    IF r.err # ""
    THEN /\ presult' = [kind |-> "ReadError", msg |-> Plain("read")]
         /\ ppc' = 0
         /\ ppos' = r.pos
         /\ parsed' = parsed
    ELSE /\ presult' = presult
         /\ ppc' = ppc + 1
         /\ ppos' = r.pos
         /\ parsed' = Append(parsed, [number |-> number, start |-> ppos, stop |-> r.pos])

\* the ? after a section: an error (or a panic) ends the constructor with
\* it, the cursor left at the field that failed; otherwise the section
\* counts as parsed and the next step follows
Advance(number, r) ==
    IF r.err # ""
    THEN /\ presult' = [kind |-> r.err, msg |-> r.msg]
         /\ ppc' = 0
         /\ ppos' = r.pos
         /\ parsed' = parsed
    ELSE /\ presult' = presult
         /\ ppc' = ppc + 1
         /\ ppos' = r.pos
         /\ parsed' = Append(parsed, [number |-> number, start |-> ppos, stop |-> r.pos])

\* number_of_data_points of a Section 3 parsed with result r
KeepPoints(r) == s3points' = IF r.err = "" THEN U32OfBytes(r.vals[4]) ELSE s3points

\* number_of_values of a Section 5 parsed with result r
KeepValues(r) ==
    s5values' = IF r.err = "" THEN Append(s5values, U32OfBytes(r.vals[3])) ELSE s5values

\* run_length_position and run_length_bytes of a Section 7 parsed with result r
KeepRun(r) ==
    s7runs' = IF r.err = ""
              THEN Append(s7runs, [run_length_position |-> r.run_length_position,
                                   run_length_bytes |-> r.run_length_bytes])
              ELSE s7runs

Call_Section0 ==
    /\ At("Section0")
    /\ \E r \in {Section0_from_reader(pfile, ppos)} :
         /\ Advance(0, r)
    /\ UNCHANGED <<dvars, xvars, svars, rvars, ovars,
                   pfile, product, s3points, s5values, s7runs>>

Call_Section1 ==
    /\ At("Section1")
    /\ \E r \in {Section1_from_reader(pfile, ppos)} :
         /\ Advance(1, r)
    /\ UNCHANGED <<dvars, xvars, svars, rvars, ovars,
                   pfile, product, s3points, s5values, s7runs>>

Call_Section2 ==
    /\ At("Section2")
    /\ \E r \in {Section2_from_reader(pfile, ppos)} :
         /\ Advance(2, r)
    /\ UNCHANGED <<dvars, xvars, svars, rvars, ovars,
                   pfile, product, s3points, s5values, s7runs>>

Call_Section3_0 ==
    /\ At("Section3_0")
    /\ \E r \in {Section3_0_from_reader(pfile, ppos)} :
         /\ Advance(3, r)
         /\ KeepPoints(r)
    /\ UNCHANGED <<dvars, xvars, svars, rvars, ovars,
                   pfile, product, s5values, s7runs>>

Call_Section4_0 ==
    /\ At("Section4_0")
    /\ \E r \in {Section4_0_from_reader(pfile, ppos)} :
         /\ Advance(4, r)
    /\ UNCHANGED <<dvars, xvars, svars, rvars, ovars,
                   pfile, product, s3points, s5values, s7runs>>

Call_Section4_50008 ==
    /\ At("Section4_50008")
    /\ \E r \in {Section4_50008_from_reader(pfile, ppos)} :
         /\ Advance(4, r)
    /\ UNCHANGED <<dvars, xvars, svars, rvars, ovars,
                   pfile, product, s3points, s5values, s7runs>>

Call_Section5_200 ==
    /\ At("Section5_200")
    /\ \E r \in {Section5_200_from_reader(pfile, ppos, build)} :
         /\ Advance(5, r)
         /\ KeepValues(r)
    /\ UNCHANGED <<dvars, xvars, svars, rvars, ovars,
                   pfile, product, s3points, s7runs>>

Call_Section6 ==
    /\ At("Section6")
    /\ \E r \in {Section6_from_reader(pfile, ppos)} :
         /\ Advance(6, r)
    /\ UNCHANGED <<dvars, xvars, svars, rvars, ovars,
                   pfile, product, s3points, s5values, s7runs>>

Call_Section7_200 ==
    /\ At("Section7_200")
    /\ \E r \in {Section7_200_from_reader(pfile, ppos, build)} :
         /\ Advance(7, r)
         /\ KeepRun(r)
    /\ UNCHANGED <<dvars, xvars, svars, rvars, ovars,
                   pfile, product, s3points, s5values>>

Call_Section8 ==
    /\ At("Section8")
    /\ \E r \in {Section8_from_reader(pfile, ppos)} :
         /\ Advance(8, r)
    /\ UNCHANGED <<dvars, xvars, svars, rvars, ovars,
                   pfile, product, s3points, s5values, s7runs>>

Call_read_section0 ==
    /\ At("read_section0")
    /\ \E r \in {Inner_read_section0(pfile, ppos)} :
         /\ Advance(0, r)
    /\ UNCHANGED <<dvars, xvars, svars, rvars, ovars,
                   pfile, product, s3points, s5values, s7runs>>

Call_read_section1 ==
    /\ At("read_section1")
    /\ \E r \in {Inner_read_section1(pfile, ppos)} :
         /\ Advance(1, r)
    /\ UNCHANGED <<dvars, xvars, svars, rvars, ovars,
                   pfile, product, s3points, s5values, s7runs>>

Call_read_section2 ==
    /\ At("read_section2")
    /\ \E r \in {Inner_read_section2(pfile, ppos)} :
         /\ Advance(2, r)
    /\ UNCHANGED <<dvars, xvars, svars, rvars, ovars,
                   pfile, product, s3points, s5values, s7runs>>

Call_read_section3 ==
    /\ At("read_section3")
    /\ \E r \in {Inner_read_section3(pfile, ppos)} :
         /\ Advance(3, r)
         /\ KeepPoints(r)
    /\ UNCHANGED <<dvars, xvars, svars, rvars, ovars,
                   pfile, product, s5values, s7runs>>

Call_read_section4 ==
    /\ At("read_section4")
    /\ \E r \in {Inner_read_section4(pfile, ppos)} :
         /\ Advance(4, r)
    /\ UNCHANGED <<dvars, xvars, svars, rvars, ovars,
                   pfile, product, s3points, s5values, s7runs>>

Call_read_section5 ==
    /\ At("read_section5")
    /\ \E r \in {Inner_read_section5(pfile, ppos, build)} :
         /\ Advance(5, r)
         /\ KeepValues(r)
    /\ UNCHANGED <<dvars, xvars, svars, rvars, ovars,
                   pfile, product, s3points, s7runs>>

Call_read_section6 ==
    /\ At("read_section6")
    /\ \E r \in {Inner_read_section6(pfile, ppos)} :
         /\ Advance(6, r)
    /\ UNCHANGED <<dvars, xvars, svars, rvars, ovars,
                   pfile, product, s3points, s5values, s7runs>>

Call_read_section7 ==
    /\ At("read_section7")
    /\ \E r \in {Inner_read_section7(pfile, ppos, build)} :
         /\ Advance(7, r)
         /\ KeepRun(r)
    /\ UNCHANGED <<dvars, xvars, svars, rvars, ovars,
                   pfile, product, s3points, s5values>>

Call_read_section8 ==
    /\ At("read_section8")
    /\ \E r \in {Inner_read_section8(pfile, ppos)} :
         /\ Advance(8, r)
    /\ UNCHANGED <<dvars, xvars, svars, rvars, ovars,
                   pfile, product, s3points, s5values, s7runs>>

\* the end of ArfReader::new (arf.rs:70-91): the count of Section 3 against
\* the count of Section 5
ArfReader_new ==
    /\ At("ArfReader")
    /\ presult' = [kind |-> IF s3points # s5values[1] THEN "Unexpected" ELSE "Ok"]
    /\ ppc' = 0
    /\ UNCHANGED <<dvars, xvars, svars, rvars, ovars,
                   pfile, ppos, product, parsed, s3points, s5values, s7runs>>

\* the end of AswiReader::new (aswi_reader.rs:77-85)
AswiReader_new ==
    /\ At("AswiReader")
    /\ presult' = [kind |-> "Ok"]
    /\ ppc' = 0
    /\ UNCHANGED <<dvars, xvars, svars, rvars, ovars,
                   pfile, ppos, product, parsed, s3points, s5values, s7runs>>

\* the end of AnalysisRainfallReader::new (analysis_rainfall_reader.rs:40-50)
AnalysisRainfallReader_new ==
    /\ At("AnalysisRainfallReader")
    /\ presult' = [kind |-> IF s3points # s5values[1] THEN "Unexpected" ELSE "Ok"]
    /\ ppc' = 0
    /\ UNCHANGED <<dvars, xvars, svars, rvars, ovars,
                   pfile, ppos, product, parsed, s3points, s5values, s7runs>>

NextParse ==
    \/ File_open
    \/ Reader_values
    \/ Call_Section0
    \/ Call_Section1
    \/ Call_Section2
    \/ Call_Section3_0
    \/ Call_Section4_0
    \/ Call_Section4_50008
    \/ Call_Section5_200
    \/ Call_Section6
    \/ Call_Section7_200
    \/ Call_Section8
    \/ Call_read_section0
    \/ Call_read_section1
    \/ Call_read_section2
    \/ Call_read_section3
    \/ Call_read_section4
    \/ Call_read_section5
    \/ Call_read_section6
    \/ Call_read_section7
    \/ Call_read_section8
    \/ ArfReader_new
    \/ AswiReader_new
    \/ AnalysisRainfallReader_new

SpecParse == InitParse /\ [][NextParse]_vars

----------------------------------------------------------------------------
(* The statements of the specification about the decoder, in its own       *)
(* terms: natural numbers, groups of the payload, the emitted values.      *)

IsOk(it) == it.kind = "Ok"
OkItems == SelectSeq(items, IsOk)
EmittedLevels == [i \in 1..Len(OkItems) |-> OkItems[i].level]
IsPrefix(s, t) == Len(s) <= Len(t) /\ SubSeq(t, 1, Len(s)) = s

\* natural-number arithmetic that stops at 2^31 - 1 instead of leaving the
\* range of the checker's integers
SatMul(a, b) ==
    IF a = 0 \/ b = 0 THEN 0
    ELSE IF a > 2147483647 \div b THEN 2147483647 ELSE a * b
SatAdd(a, b) == IF a > 2147483647 - b THEN 2147483647 ELSE a + b
RECURSIVE SatPow(_, _)
SatPow(b, e) == IF e = 0 THEN 1 ELSE SatMul(b, SatPow(b, e - 1))

\* LNGU = 2^NBIT - 1 - MAXV
StatedLngu(nb, mv) == Pow(2, nb) - 1 - mv

\* sum over the digits g[k..] of LNGU^(i-1) * (d_i - (MAXV + 1)), d_i = g[i+1]
RECURSIVE StatedDigits(_, _, _, _)
StatedDigits(g, k, mv, lg) ==
    IF k > Len(g) THEN 0
    ELSE SatAdd(SatMul(SatPow(lg, k - 2), g[k] - (mv + 1)),
                StatedDigits(g, k + 1, mv, lg))

\* the repeat count of the group g
StatedCount(g, mv, lg) == SatAdd(1, StatedDigits(g, 2, mv, lg))

\* the u32 t is the natural number c (c = 2^31 - 1 stands for "at least")
CountIs(t, c) ==
    IF c < 2147483647 THEN t = U32(c)
    ELSE t.hi >= 32768 \/ (t.hi = 32767 /\ t.lo = 65535)

\* the last index of the group that starts at index j of the payload p
RECURSIVE GroupEnd(_, _, _)
GroupEnd(p, j, mv) ==
    IF j < Len(p) /\ p[j + 1] > mv THEN GroupEnd(p, j + 1, mv) ELSE j

\* each group's level repeated its repeat count, from the group at index i on
RECURSIVE StatedLevelsFrom(_, _, _, _)
StatedLevelsFrom(p, i, mv, lg) ==
    IF i > Len(p) THEN <<>>
    ELSE [k \in 1..StatedCount(SubSeq(p, i, GroupEnd(p, i, mv)), mv, lg) |-> p[i]]
         \o StatedLevelsFrom(p, GroupEnd(p, i, mv) + 1, mv, lg)

StatedLevels == StatedLevelsFrom(Payload, 1, maxv, StatedLngu(nbit, maxv))

\* MAXV fits NBIT bits and the payload starts with a level
WellFormed ==
    /\ nbit < 16
    /\ maxv <= Pow(2, nbit) - 1
    /\ Payload # <<>> => Payload[1] <= maxv

\* a valid file: the groups expand to exactly number_of_points values, each
\* level has an entry in the level table
ValidFile ==
    /\ WellFormed
    /\ Len(StatedLevels) = number_of_points
    /\ \A k \in 1..Len(StatedLevels) : StatedLevels[k] <= Len(level_values)

\* the stream has returned end-of-stream or an error
StreamEnded == \E i \in 1..Len(items) : items[i].kind # "Ok"

\* the payload is used up
BudgetExhausted == total_bytes <= read_bytes

\* C1: a valid file yields number_of_points Ok values, then end-of-stream,
\* and no error item
C1_RoundTripCount ==
    ValidFile =>
        \A i \in 1..Len(items) :
            IF i <= number_of_points THEN items[i].kind = "Ok"
            ELSE items[i].kind = "None"

\* C2: the stream never yields more than number_of_points Ok values
C2_StopsAtCount == Len(OkItems) <= number_of_points

\* end-of-stream is only returned after exactly number_of_points Ok values
NoSilentEnd ==
    \A i \in 1..Len(items) :
        items[i].kind = "None" =>
            Len(SelectSeq(SubSeq(items, 1, i), IsOk)) = number_of_points

\* C3 as stated: with the payload used up and fewer than number_of_points
\* values emitted, the next item is Unexpected; the stream never ends
\* silently short
C3_ExhaustedIsUnexpected ==
    [][ /\ (pc = "ready" /\ BudgetExhausted
            /\ Len(OkItems) < number_of_points /\ Len(items') > Len(items))
           => items'[Len(items')].kind = "Unexpected"
        /\ NoSilentEnd' ]_vars

\* C3, amended: with the payload used up, no repeat of the current group
\* left to return and fewer than number_of_points values emitted, the next
\* item is Unexpected; the stream never ends silently short
C3_ExhaustedNoRepeatIsUnexpected ==
    [][ /\ (pc = "ready" /\ BudgetExhausted /\ returning_times = U32(0)
            /\ Len(OkItems) < number_of_points /\ Len(items') > Len(items))
           => items'[Len(items')].kind = "Unexpected"
        /\ NoSilentEnd' ]_vars

\* C3's case has happened: the payload ran out short, with no repeat left,
\* and the stream returned Unexpected
C3_Witness ==
    /\ BudgetExhausted
    /\ returning_times = U32(0)
    /\ 0 < Len(OkItems) /\ Len(OkItems) < number_of_points
    /\ items[Len(items)].kind = "Unexpected"

\* C4: the decoder never panics
C4_NeverPanics == pc # "panicked"

\* C6: the emitted levels are each group's level repeated its repeat count,
\* in stream order; all of them once the stream has ended
C6_LevelSequence ==
    WellFormed =>
        /\ IsPrefix(EmittedLevels, StatedLevels)
        /\ StreamEnded => EmittedLevels = StatedLevels

\* C7: level 0 has no physical value, level L >= 1 has level_values[L-1]
C7_MissingValueMapping ==
    \A i \in 1..Len(items) :
        items[i].kind = "Ok" =>
            IF items[i].level = 0 THEN items[i].value = NoValue
            ELSE /\ items[i].level <= Len(level_values)
                 /\ items[i].value = Some(level_values[items[i].level])

\* C7's case has happened: a value of level 0 and a value of a level >= 1
\* have been emitted
C7_Witness ==
    /\ \E i \in 1..Len(items) : items[i].kind = "Ok" /\ items[i].level = 0
    /\ \E i \in 1..Len(items) : items[i].kind = "Ok" /\ items[i].level >= 1

\* the step of the grid the specification states, from the emitted value v
\* to the emitted value w
StatedStep(v, w) ==
    IF ~AddU32(v.lon_e6, lon_inc).overflow
       /\ ~LtU32(lon_max, AddU32(v.lon_e6, lon_inc).v)
    THEN /\ w.lon_e6 = AddU32(v.lon_e6, lon_inc).v
         /\ w.lat_e6 = v.lat_e6
    ELSE /\ w.lon_e6 = lon_min
         /\ ~SubU32(v.lat_e6, lat_inc).overflow
         /\ w.lat_e6 = SubU32(v.lat_e6, lat_inc).v

\* C8: the first value is at the first grid point; longitude advances by the
\* column increment, and exactly when it would pass the last longitude it
\* resets and latitude decreases by the row increment
C8_GridTraversal ==
    /\ OkItems # <<>> =>
           OkItems[1].lat_e6 = lat_max /\ OkItems[1].lon_e6 = lon_min
    /\ \A i \in 1..(Len(OkItems) - 1) : StatedStep(OkItems[i], OkItems[i + 1])

\* C5: for a group of a level <= MAXV and digits > MAXV, expansion returns
\* the level and the count 1 + sum LNGU^(i-1) * (d_i - (MAXV + 1)); with
\* NBIT = 4, MAXV = 10: [3] -> (3,1), [9,12] -> (9,2), [4,15] -> (4,5),
\* [0,13,12] -> (0,8)
C5_ExpansionFormula ==
    (/\ xout.done
     /\ xin.values[1] <= xin.maxv
     /\ \A k \in 2..Len(xin.values) : xin.values[k] > xin.maxv)
    => /\ ~xout.panic
       /\ xout.level = xin.values[1]
       /\ CountIs(xout.times,
                  StatedCount(xin.values, xin.maxv, StatedLngu(xin.nbit, xin.maxv)))
       /\ (xin.nbit = 4 /\ xin.maxv = 10) =>
             /\ xin.values = <<3>> => xout.level = 3 /\ xout.times = U32(1)
             /\ xin.values = <<9, 12>> => xout.level = 9 /\ xout.times = U32(2)
             /\ xin.values = <<4, 15>> => xout.level = 4 /\ xout.times = U32(5)
             /\ xin.values = <<0, 13, 12>> => xout.level = 0 /\ xout.times = U32(8)

\* LNGU as new() computes it in u16 is 2^NBIT - 1 - MAXV
LnguIsExact(nb, mv) ==
    /\ ~lngu_of(nb, mv).overflow
    /\ lngu_of(nb, mv).v = StatedLngu(nb, mv)

\* the repeat count of the group g as expand_run_length computes it in u32
\* is 1 + sum LNGU^(i-1) * (d_i - (MAXV + 1))
CountIsExact(g, nb, mv) ==
    /\ ~times_of(digit_sum(g, 2, mv, lngu_of(nb, mv).v)).overflow
    /\ CountIs(times_of(digit_sum(g, 2, mv, lngu_of(nb, mv).v)).v,
               StatedCount(g, mv, StatedLngu(nb, mv)))

\* C28: for every NBIT/MAXV and every group expanded, LNGU computed in 16
\* bits and the repeat count computed in 32 bits equal the mathematical
\* values: no operation overflows, underflows or wraps around, so the call
\* neither panics nor returns a wrapped count.
C28_MachineIntegersAreExact ==
    (xout.done /\ xin.values[1] <= xin.maxv) =>
        /\ LnguIsExact(xin.nbit, xin.maxv)
        /\ CountIsExact(xin.values, xin.nbit, xin.maxv)
        /\ ~xout.panic
        /\ CountIs(xout.times,
                   StatedCount(xin.values, xin.maxv, StatedLngu(xin.nbit, xin.maxv)))

\* where the last group of the payload starts
LastGroupStart ==
    CHOOSE i \in 1..Len(Payload) :
        /\ Payload[i] <= maxv
        /\ \A j \in (i + 1)..Len(Payload) : Payload[j] > maxv

\* the level of the last group, repeated the count that the symbols of the
\* payload from its start to the end of the payload give
LastGroupLevels ==
    [k \in 1..StatedCount(SubSeq(Payload, LastGroupStart, Len(Payload)), maxv,
                          StatedLngu(nbit, maxv)) |-> Payload[LastGroupStart]]

\* the sequence s ends with the sequence t
IsSuffix(t, s) ==
    Len(t) <= Len(s) /\ SubSeq(s, Len(s) - Len(t) + 1, Len(s)) = t

\* C24: the last group of the payload ends where the payload ends: no item
\* is a read error, and once the stream has ended the levels emitted end
\* with that group's level, repeated the count its own symbols give.
C24_LastGroupEndsWithPayload ==
    (WellFormed /\ Payload # <<>>) =>
        /\ \A i \in 1..Len(items) : items[i].kind # "ReadError"
        /\ StreamEnded => IsSuffix(LastGroupLevels, EmittedLevels)

\* C25: the decoder has consumed at most total_bytes bytes, and its cursor
\* is at most total_bytes past the payload offset.
C25_StaysInsidePayload == read_bytes <= total_bytes /\ pos <= total_bytes

\* C30: once the stream has returned end-of-stream or an error item, no
\* later call of next() returns an Ok value: every item after the first item
\* that is not Ok is end-of-stream or an error, so the number of Ok values
\* no longer changes.
C30_EndIsFinal ==
    \A i \in 1..Len(items) : \A j \in (i + 1)..Len(items) :
        items[i].kind # "Ok" => items[j].kind \in {"None", "ReadError", "Unexpected"}

\* C30's case has happened: after a value the stream has returned a read
\* error, and next() has been called again after it
C30_Witness ==
    \E i \in 2..(Len(items) - 1) :
        items[1].kind = "Ok" /\ items[i].kind = "ReadError"

\* the value of a grid field that fits 16 bits
E6(x) == x.lo

\* the points per row and the rows of the grid the arguments describe
Ni == (E6(lon_max) - E6(lon_min)) \div E6(lon_inc) + 1
Nj == number_of_points \div Ni

\* a valid grid: positive increments, the last longitude a whole number of
\* columns from the first, number_of_points whole rows, and no row below
\* latitude zero
ValidGrid ==
    /\ lat_max.hi = 0 /\ lon_min.hi = 0 /\ lon_max.hi = 0
    /\ lat_inc.hi = 0 /\ lon_inc.hi = 0
    /\ E6(lat_inc) > 0 /\ E6(lon_inc) > 0
    /\ E6(lon_min) <= E6(lon_max)
    /\ (E6(lon_max) - E6(lon_min)) % E6(lon_inc) = 0
    /\ number_of_points > 0
    /\ number_of_points % Ni = 0
    /\ (Nj - 1) * E6(lat_inc) <= E6(lat_max)

\* the 0-based k-th emitted value is at the stated grid point
AtGridPoint(k) ==
    /\ OkItems[k + 1].lat_e6 = U32(E6(lat_max) - (k \div Ni) * E6(lat_inc))
    /\ OkItems[k + 1].lon_e6 = U32(E6(lon_min) + (k % Ni) * E6(lon_inc))

\* next() has a value to return: a repetition of the current group remains,
\* or the next group is read and expanded to a level of the table
ValueReady ==
    \/ returning_times # U32(0)
    \/ /\ read_bytes < total_bytes
       /\ \E rl \in {retrieve_run_length(file, pos, <<>>, maxv)} :
            /\ rl.ok
            /\ \E ex \in {expand_run_length(rl.values, maxv, lngu, build)} :
                 ~ex.panic /\ ex.level <= Len(level_values)

\* next() stopped with its value ready, at the grid move after the value
ValueLost == pc = "panicked" /\ lngu_of(nbit, maxv).v = lngu /\ ValueReady

\* C27: on a valid grid the k-th emitted value (0-based, k below
\* number_of_points) is at latitude first_lat - (k div Ni) * row increment
\* and longitude first_lon + (k mod Ni) * column increment, and no value of
\* the number_of_points values is lost at the grid move: the last one is
\* emitted, at the last grid point.
C27_KthValueAtKthGridPoint ==
    ValidGrid =>
        /\ \A k \in 0..(Len(OkItems) - 1) :
               k < number_of_points => AtGridPoint(k)
        /\ ~(ValueLost /\ Len(OkItems) < number_of_points)

----------------------------------------------------------------------------
(* The statements of the specification about reader construction, under    *)
(* SpecParse.                                                              *)

\* the constructor has parsed all its sections up to and including number n
ParsedThrough(n) ==
    /\ product # "none"
    /\ Len(parsed) = Len(Steps(product)) - (1 + (8 - n))

\* the constructor has ended, with a result or a panic
Returned == ppc = 0 /\ presult.kind # "none"

\* a Section 5 of the file has another count than Section 3
CountsDiffer == \E k \in DOMAIN s5values : s5values[k] # s3points

\* C9: a constructor that has parsed every section of a file in which a
\* Section 5 has a number_of_values other than Section 3's
\* number_of_data_points ends with Unexpected, whatever the product.
C9_CountMismatchIsUnexpected ==
    (Returned /\ ParsedThrough(8) /\ CountsDiffer) => presult.kind = "Unexpected"

\* the first four bytes of the file are not "GRIB"
MagicAltered == Len(pfile) >= 4 /\ Bytes(pfile, 0, 4) # GRIB

\* the edition number (octet 8) is not 2, after the magic string "GRIB"
EditionAltered ==
    Len(pfile) >= 8 /\ Bytes(pfile, 0, 4) = GRIB /\ pfile[8] # EDITION_NUMBER

\* every section before Section 8 has been parsed and the four bytes left,
\* where Section 8 is read, are not "7777"
MarkerAltered ==
    /\ ParsedThrough(7)
    /\ ppos + 4 = Len(pfile)
    /\ Bytes(pfile, ppos, 4) # SECTION8_END_MARKER

\* C10: a constructor run on a file whose magic string, edition number or
\* end marker is altered ends with Unexpected: not with ReadError, not with
\* success.
C10_AlteredConstantIsUnexpected ==
    (Returned /\ (MagicAltered \/ EditionAltered \/ MarkerAltered))
        => presult.kind = "Unexpected"

\* the step that parsed the k-th section, or that failed after k - 1 sections
StepOf(k) == Steps(product)[k]

\* the section number of a step of sections.rs (0 for the steps without one)
NumberOf(step) ==
    IF step = "Section1" THEN 1
    ELSE IF step = "Section3_0" THEN 3
    ELSE IF step \in {"Section4_0", "Section4_50008"} THEN 4
    ELSE IF step = "Section5_200" THEN 5
    ELSE IF step = "Section6" THEN 6
    ELSE IF step = "Section7_200" THEN 7
    ELSE 0

\* where the section that failed, or that is parsed next, starts
SectionStart == IF parsed = <<>> THEN 0 ELSE parsed[Len(parsed)].stop

\* the constructor has ended in the section of step Len(parsed) + 1
FailedInSection ==
    /\ Returned
    /\ handle = "open"
    /\ product # "none"
    /\ Len(parsed) < Len(Steps(product)) - 1

\* the offset of the template number in Section 3, 4 and 5
TemplateOffset(number) == IF number = 3 THEN 12 ELSE IF number = 4 THEN 7 ELSE 9

\* the template number the template decoder of a step of sections.rs expects
ExpectedTemplate(step) ==
    IF step = "Section3_0" THEN LAT_LON_GRID_DEFINITION_TEMPLATE_NUMBER
    ELSE IF step = "Section4_0" THEN DEFAULT_PRODUCT_DEFINITION_TEMPLATE_NUMBER
    ELSE IF step = "Section4_50008" THEN RADAR_PRODUCT_DEFINITION_TEMPLATE_NUMBER
    ELSE RUN_LENGTH_DATA_REPRESENTATION_TEMPLATE_NUMBER

\* the section at start, parsed by step, holds another template number than
\* the one the step's template decoder expects
TemplateDiffers(step, start) ==
    /\ NumberOf(step) \in {3, 4, 5}
    /\ start + TemplateOffset(NumberOf(step)) + 2 <= Len(pfile)
    /\ Bytes(pfile, start + TemplateOffset(NumberOf(step)), 2)
         # BE16(ExpectedTemplate(step))

\* a template number other than the expected one has been read: in a section
\* that was parsed, or in the section that failed, at or before the failure
TemplateMismatchRead ==
    \/ \E k \in 1..Len(parsed) : TemplateDiffers(StepOf(k), parsed[k].start)
    \/ /\ FailedInSection
       /\ TemplateDiffers(StepOf(Len(parsed) + 1), SectionStart)
       /\ ppos >= SectionStart + TemplateOffset(NumberOf(StepOf(Len(parsed) + 1)))

\* C11: a constructor of sections.rs that has read, in Section 3, 4 or 5, a
\* template number other than the one its template decoder expects ends with
\* Unexpected: the mismatch is not ignored and is no other kind of error.
C11_TemplateMismatchIsUnexpected ==
    (Returned /\ product \in {"arf", "aswi"} /\ TemplateMismatchRead)
        => presult.kind = "Unexpected"

\* the length a section starting at start declares in its first four bytes
DeclaredLength(start) == usize_of(U32OfBytes(Bytes(pfile, start, 4)))

\* C12: no Section 3, 4, 5 or 7 is accepted whose declared length is not the
\* number of bytes the parser has consumed for it.
C12_DeclaredLengthIsConsumed ==
    \A k \in 1..Len(parsed) :
        parsed[k].number \in {3, 4, 5, 7}
            => DeclaredLength(parsed[k].start) = parsed[k].stop - parsed[k].start

\* the Sections 7 among the sections parsed, in order
IsSection7(e) == e.number = 7
Sections7 == SelectSeq(parsed, IsSection7)

\* C13: every Section 7 parsed has recorded as payload offset the position
\* right after its 5-byte header and as payload length its declared length
\* minus 5, and has left the cursor at its start plus its declared length.
C13_Section7RecordsAndSkips ==
    /\ Len(s7runs) = Len(Sections7)
    /\ \A k \in 1..Len(Sections7) :
         /\ s7runs[k].run_length_position = Sections7[k].start + 5
         /\ s7runs[k].run_length_bytes = DeclaredLength(Sections7[k].start) - 5
         /\ Sections7[k].stop = Sections7[k].start + DeclaredLength(Sections7[k].start)

\* C14 as stated: no section is parsed after a section with an equal or
\* greater section number.
C14_StrictlyIncreasing ==
    \A j, k \in 1..Len(parsed) : j < k => parsed[j].number < parsed[k].number

\* C14, amended: each section parsed has a greater number than the section
\* parsed just before it, except a Section 4 that follows a Section 7 (the
\* Sections 4 to 7 of the next tank or forecast hour). So Sections 0 to 3
\* are parsed once, before every Section 4, and Section 8 once, last.
C14_IncreasingWithinEachRepetition ==
    \A k \in 1..(Len(parsed) - 1) :
        \/ parsed[k].number < parsed[k + 1].number
        \/ parsed[k].number = 7 /\ parsed[k + 1].number = 4

\* C14's case has happened: the Sections 4 to 7 of a second tank have been
\* parsed after the Section 7 of the first one
C14_Witness ==
    \E k \in 1..(Len(parsed) - 4) :
        /\ parsed[k].number = 7
        /\ parsed[k + 1].number = 4
        /\ parsed[k + 4].number = 7

\* what the section parser of a step returns, run at the constructor's cursor
SectionResult(step) ==
    IF step = "Section0" THEN Section0_from_reader(pfile, ppos)
    ELSE IF step = "Section1" THEN Section1_from_reader(pfile, ppos)
    ELSE IF step = "Section2" THEN Section2_from_reader(pfile, ppos)
    ELSE IF step = "Section3_0" THEN Section3_0_from_reader(pfile, ppos)
    ELSE IF step = "Section4_0" THEN Section4_0_from_reader(pfile, ppos)
    ELSE IF step = "Section4_50008" THEN Section4_50008_from_reader(pfile, ppos)
    ELSE IF step = "Section5_200" THEN Section5_200_from_reader(pfile, ppos, build)
    ELSE IF step = "Section6" THEN Section6_from_reader(pfile, ppos)
    ELSE IF step = "Section7_200" THEN Section7_200_from_reader(pfile, ppos, build)
    ELSE IF step = "Section8" THEN Section8_from_reader(pfile, ppos)
    ELSE IF step = "read_section0" THEN Inner_read_section0(pfile, ppos)
    ELSE IF step = "read_section1" THEN Inner_read_section1(pfile, ppos)
    ELSE IF step = "read_section2" THEN Inner_read_section2(pfile, ppos)
    ELSE IF step = "read_section3" THEN Inner_read_section3(pfile, ppos)
    ELSE IF step = "read_section4" THEN Inner_read_section4(pfile, ppos)
    ELSE IF step = "read_section5" THEN Inner_read_section5(pfile, ppos, build)
    ELSE IF step = "read_section6" THEN Inner_read_section6(pfile, ppos)
    ELSE IF step = "read_section7" THEN Inner_read_section7(pfile, ppos, build)
    ELSE IF step = "read_section8" THEN Inner_read_section8(pfile, ppos)
    ELSE [err |-> ""]

\* the section parser the constructor is about to run fails
SectionFails ==
    handle = "open" /\ ppc > 0 /\ SectionResult(StepOf(ppc)).err # ""

\* C15: a constructor only takes a step while it has not returned (after
\* it, only values() of a reader constructed is called); the step in which
\* a section parser fails ends the constructor with that parser's error,
\* kind and message unchanged, and not with a reader; it adds no
\* section to those parsed and leaves the cursor where the parser failed. So
\* no step follows the first failure and no later section is read.
C15_FirstErrorIsReturnedUnchanged ==
    [][ /\ ppc > 0 \/ (presult.kind = "Ok" /\ UNCHANGED pvars)
        /\ SectionFails =>
              /\ presult' = [kind |-> SectionResult(StepOf(ppc)).err,
                             msg |-> SectionResult(StepOf(ppc)).msg]
              /\ presult'.kind # "Ok"
              /\ ppc' = 0
              /\ parsed' = parsed
              /\ ppos' = SectionResult(StepOf(ppc)).pos ]_vars

\* C15's case has happened: a constructor has ended with the Unexpected
\* error of a section after the first one, whose message names the value
\* read and the value expected, with sections of the file left unread
C15_Witness ==
    /\ FailedInSection
    /\ Len(parsed) >= 1
    /\ presult.kind = "Unexpected"
    /\ presult.msg.value # <<>>
    /\ ppos + 4 < Len(pfile)

\* a field read with validate_u8 or validate_u32: its offset in its section,
\* its width and the constant expected
Validated(off, n, expected) == [off |-> off, n |-> n, expected |-> expected]

\* the fields a step reads with validate_u8 or validate_u32 (sections.rs:
\* 624, 650, 652, 716, 830, 1230, 1290, 1292, 1311;
\* analysis_rainfall_reader.rs: 1102, 1137, 1145, 1221, 1229, 1414, 1619,
\* 1694, 1702, 1737)
ValidatedOf(step) ==
    IF step \in {"Section0", "read_section0"}
    THEN {Validated(7, 1, EDITION_NUMBER)}
    ELSE IF step \in {"Section1", "read_section1"}
    THEN {Validated(0, 4, SECTION1_BYTES), Validated(4, 1, 1)}
    ELSE IF step = "Section3_0" THEN {Validated(4, 1, 3)}
    ELSE IF step = "read_section3"
    THEN {Validated(0, 4, SECTION3_BYTES), Validated(4, 1, 3)}
    ELSE IF step \in {"Section4_0", "Section4_50008", "read_section4"}
    THEN {Validated(4, 1, 4)}
    ELSE IF step \in {"Section5_200", "read_section5"} THEN {Validated(4, 1, 5)}
    ELSE IF step \in {"Section6", "read_section6"}
    THEN {Validated(0, 4, SECTION6_BYTES), Validated(4, 1, 6)}
    ELSE IF step \in {"Section7_200", "read_section7"} THEN {Validated(4, 1, 7)}
    ELSE {}

\* the constructor has ended at the validated field v, which is whole in the
\* file and holds another value than the expected one
MismatchAt(v) ==
    /\ FailedInSection
    /\ ppos = SectionStart + v.off
    /\ ppos + v.n <= Len(pfile)
    /\ U32OfField(Bytes(pfile, ppos, v.n)) # U32(v.expected)

\* C18: a constructor that has ended at a field read with validate_u8 or
\* validate_u32 whose value is not the expected constant has ended with
\* Unexpected, and the message holds the decimal rendering of the value
\* read and that of the expected constant.
C18_MismatchNamesBothValues ==
    \A v \in ValidatedOf(StepOf(Len(parsed) + 1)) :
        MismatchAt(v) =>
            /\ presult.kind = "Unexpected"
            /\ presult.msg.value = to_string(U32OfField(Bytes(pfile, ppos, v.n)))
            /\ presult.msg.expected = to_string(U32(v.expected))
            /\ presult.msg.value # presult.msg.expected

\* C18's case has happened: a validate_u32 has read 22 where 21 is expected
C18_Witness ==
    /\ MismatchAt(Validated(0, 4, SECTION1_BYTES))
    /\ StepOf(Len(parsed) + 1) \in {"Section1", "read_section1"}
    /\ presult.msg.value = <<2, 2>>
    /\ presult.msg.expected = <<2, 1>>

\* the section number of the section a step parses (8 for the steps that
\* parse no numbered section)
SectionOf(step) ==
    IF step \in {"Section1", "read_section1"} THEN 1
    ELSE IF step \in {"Section3_0", "read_section3"} THEN 3
    ELSE IF step \in {"Section4_0", "Section4_50008", "read_section4"} THEN 4
    ELSE IF step \in {"Section5_200", "read_section5"} THEN 5
    ELSE IF step \in {"Section6", "read_section6"} THEN 6
    ELSE IF step \in {"Section7_200", "read_section7"} THEN 7
    ELSE 8

\* the constructor has ended in a section whose first five bytes are in the
\* file and whose section-number byte is not the number of the section
WrongNumberRead ==
    /\ FailedInSection
    /\ SectionOf(StepOf(Len(parsed) + 1)) < 8
    /\ SectionStart + 5 <= Len(pfile)
    /\ pfile[SectionStart + 5] # SectionOf(StepOf(Len(parsed) + 1))

\* C19: every Section 1, 3, 4, 5, 6 and 7 parsed has its own number in its
\* section-number byte, and a constructor that has ended in such a section
\* holding another number has ended with Unexpected.
C19_SectionNumberIsChecked ==
    /\ \A k \in 1..Len(parsed) :
           parsed[k].number \in {1, 3, 4, 5, 6, 7}
               => pfile[parsed[k].start + 5] = parsed[k].number
    /\ WrongNumberRead => presult.kind = "Unexpected"

\* C19's case has happened: after six sections, the Section 7 of a file
\* holds the number 9 and the constructor has ended with Unexpected
C19_Witness ==
    /\ WrongNumberRead
    /\ SectionOf(StepOf(Len(parsed) + 1)) = 7
    /\ pfile[SectionStart + 5] = 9
    /\ presult.kind = "Unexpected"

\* the constructor has ended in a Section 1 or 6 whose length field is in
\* the file and is not the length of that section
WrongLengthRead ==
    /\ FailedInSection
    /\ SectionOf(StepOf(Len(parsed) + 1)) \in {1, 6}
    /\ SectionStart + 4 <= Len(pfile)
    /\ DeclaredLength(SectionStart)
         # (IF SectionOf(StepOf(Len(parsed) + 1)) = 1 THEN SECTION1_BYTES
            ELSE SECTION6_BYTES)

\* C20: every Section 1 parsed declares the length 21 and every Section 6
\* parsed the length 6; a constructor that has ended in a Section 1 or 6
\* declaring another length has ended with an error, not with a panic.
C20_FixedLengthIsChecked ==
    /\ \A k \in 1..Len(parsed) :
           /\ parsed[k].number = 1 => DeclaredLength(parsed[k].start) = SECTION1_BYTES
           /\ parsed[k].number = 6 => DeclaredLength(parsed[k].start) = SECTION6_BYTES
    /\ WrongLengthRead => presult.kind \in {"Unexpected", "ReadError"}

\* C20's case has happened: a Section 6 declares the length 7 and the
\* constructor has ended with an error before any byte after the length
C20_Witness ==
    /\ WrongLengthRead
    /\ SectionOf(StepOf(Len(parsed) + 1)) = 6
    /\ DeclaredLength(SectionStart) = 7
    /\ ppos = SectionStart
    /\ presult.kind = "Unexpected"

\* the constructor has ended at a string field: the magic string at the
\* start of Section 0, or the end marker of Section 8
StringReadFailed ==
    /\ FailedInSection
    /\ \/ StepOf(Len(parsed) + 1) \in {"Section0", "read_section0"} /\ ppos = 0
       \/ StepOf(Len(parsed) + 1) \in {"Section8", "read_section8"}

\* C21: a constructor that has ended at a 4-byte string field has ended with
\* ReadError when fewer than 4 bytes remain in the file, and with Unexpected
\* when the 4 bytes are not valid UTF-8; the end marker of Section 8 included.
C21_StringReadErrors ==
    StringReadFailed =>
        IF ppos + 4 > Len(pfile) THEN presult.kind = "ReadError"
        ELSE ~from_utf8_ok(Bytes(pfile, ppos, 4), 1) => presult.kind = "Unexpected"

----------------------------------------------------------------------------
(* The statement of the specification about reading a datetime, under      *)
(* SpecReadDatetime.                                                       *)

\* year y has a 29th of February
LeapYear(y) == (y % 4 = 0 /\ y % 100 # 0) \/ y % 400 = 0

\* day d exists in month m of year y
DayExists(y, m, d) ==
    /\ 1 <= d
    /\ d <= (IF m \in {1, 3, 5, 7, 8, 10, 12} THEN 31
             ELSE IF m \in {4, 6, 9, 11} THEN 30
             ELSE IF LeapYear(y) THEN 29 ELSE 28)

\* the seven bytes bs hold a month outside 1..12, a day that is not valid
\* for the year and month, or an hour, minute or second out of range
OutOfCalendar(bs) ==
    \/ bs[3] < 1 \/ bs[3] > 12
    \/ ~DayExists(bs[1] * 256 + bs[2], bs[3], bs[4])
    \/ bs[5] > 23 \/ bs[6] > 59 \/ bs[7] > 59

\* C22: read_datetime on seven bytes fails with Unexpected whenever the
\* month, the day or a part of the time is out of range; when it succeeds
\* it has consumed the seven bytes as a 2-byte big-endian year and five
\* 1-byte fields: month, day, hour, minute, second.
C22_DatetimeRangeIsChecked ==
    (rout.done /\ Len(rin.bytes) = 7) =>
        /\ OutOfCalendar(rin.bytes) => rout.err = "Unexpected"
        /\ rout.err = "" =>
              rout.value = [year |-> rin.bytes[1] * 256 + rin.bytes[2],
                            month |-> rin.bytes[3], day |-> rin.bytes[4],
                            hour |-> rin.bytes[5], minute |-> rin.bytes[6],
                            second |-> rin.bytes[7], bytes |-> 7]

\* C22's case has happened: the 29th of February 2023 has been refused with
\* Unexpected
C22_Witness ==
    /\ rout.done
    /\ rin.bytes = <<7, 231, 2, 29, 0, 0, 0>>
    /\ rout.err = "Unexpected"

----------------------------------------------------------------------------
(* The statement of the specification about several value streams, under   *)
(* SpecStreams.                                                            *)

\* the stream it has returned what the stream of its tank returned when it
\* was consumed alone, as far as it has been called; it has panicked only
\* where that one panicked
AsAlone(it, alone) ==
    /\ IsPrefix(it.items, alone.items)
    /\ it.pc = "panicked" => alone.pc = "panicked" /\ it.items = alone.items

\* C16: of two streams alive at once and called in any order, each has
\* returned exactly the items it returned when it was consumed alone.
C16_InterleavedAsAlone ==
    Len(solo) = 2 =>
        /\ AsAlone(This, solo[running])
        /\ AsAlone(held[1], solo[3 - running])

\* C16's case has happened: two streams on different payloads are both in
\* the middle of their items, each with two or more returned and more to come
C16_Witness ==
    /\ Len(solo) = 2
    /\ file # held[1].file
    /\ 2 <= Len(items) /\ Len(items) < Len(solo[running].items)
    /\ 2 <= Len(held[1].items) /\ Len(held[1].items) < Len(solo[3 - running].items)
    /\ items # held[1].items

\* C23: a constructor whose path does not open has ended with NotFound
\* before any section was parsed or any byte read; values() called when the
\* path does not open has ended with NotFound and has given no stream.
C23_UnopenedIsNotFound ==
    /\ (~path.new /\ Returned) =>
           presult.kind = "NotFound" /\ parsed = <<>> /\ ppos = 0
    /\ (~path.values /\ vresult.kind # "none") =>
           vresult.kind = "NotFound" /\ DOMAIN vresult = {"kind", "msg"}

\* C23's case has happened: the path opened for the constructor, which has
\* parsed its sections, and no longer for values()
C23_Witness ==
    /\ path.new /\ ~path.values
    /\ presult.kind = "Ok" /\ ParsedThrough(8)
    /\ vresult.kind = "NotFound"

\* the Section 5 parsed as the k-th section has consumed its 17 bytes before
\* the level values and n level values of two bytes
LevelsRead(k, n) == parsed[k].stop - parsed[k].start = 17 + 2 * n

\* C26: every Section 5 parsed that declares a length of 17 or more has read
\* exactly (declared length - 17) / 2 level values, rounded down; when the
\* declared length is 17 plus an even number it has consumed exactly its
\* declared length.
C26_LevelTableFromDeclaredLength ==
    \A k \in 1..Len(parsed) :
        (parsed[k].number = 5 /\ DeclaredLength(parsed[k].start) >= 17) =>
            /\ LevelsRead(k, (DeclaredLength(parsed[k].start) - 17) \div 2)
            /\ (DeclaredLength(parsed[k].start) - 17) % 2 = 0 =>
                  parsed[k].stop - parsed[k].start = DeclaredLength(parsed[k].start)

\* C26's case has happened: a Section 5 declaring 21 bytes has been parsed
\* with two level values, in 21 bytes
C26_Witness ==
    \E k \in 1..Len(parsed) :
        /\ parsed[k].number = 5
        /\ DeclaredLength(parsed[k].start) = 21
        /\ LevelsRead(k, 2)

\* the section of the given number at start declares a length below the
\* bytes that come before its template's variable part: 17 for Section 5,
\* 5 for Section 7
DeclaresTooShort(number, start) ==
    /\ start + 4 <= Len(pfile)
    /\ \/ number = 5 /\ DeclaredLength(start) < 17
       \/ number = 7 /\ DeclaredLength(start) < 5

\* C29: a constructor of sections.rs accepts no Section 5 declaring less
\* than 17 bytes and no Section 7 declaring less than 5 bytes, and when it
\* ends in such a section it ends with an error result, not with a panic.
C29_ShortLengthIsRejected ==
    product \in {"arf", "aswi"} =>
        /\ \A k \in 1..Len(parsed) :
               ~DeclaresTooShort(parsed[k].number, parsed[k].start)
        /\ (/\ FailedInSection
            /\ DeclaresTooShort(NumberOf(StepOf(Len(parsed) + 1)), SectionStart))
           => presult.kind \in {"ReadError", "Unexpected"}

----------------------------------------------------------------------------
(* The statement of the specification about the signed 32-bit read, under  *)
(* SpecReadI32.                                                            *)

\* the low 31 bits of four big-endian bytes, as a magnitude
Magnitude(bs) == BE(<<bs[1] % 128>> \o SubSeq(bs, 2, 4))

\* C17: the signed 32-bit read of four bytes with top bit s and low 31 bits
\* m returns m when s = 0 and -m when s = 1.
C17_SignMagnitude ==
    (rout.done /\ rout.err = "") =>
        rout.value = IF rin.bytes[1] < 128 THEN Magnitude(rin.bytes)
                     ELSE 0 - Magnitude(rin.bytes)

====
